---- MODULE Spec2Model ----
(***************************************************************************)
(* A model of the hash-gis tile server (src-tauri/crates/server and        *)
(* src-tauri/crates/map-engine): the map registry, map registration, the   *)
(* tile request dispatcher and the window arithmetic they rest on.         *)
(*                                                                         *)
(* Conventions.                                                            *)
(*   Option<T>      <<>> is None, <<v>> is Some(v).                        *)
(*   Result<T, E>   [ok |-> TRUE, val |-> v] or [ok |-> FALSE, err |-> e]. *)
(*   f64            the integers that the modelled values take.            *)
(*   format!(..)    the tuple of the fragments it concatenates.            *)
(***************************************************************************)
EXTENDS Integers, Sequences, FiniteSets, TLC

VARIABLES
    maps,       \* State.maps:    name -> Option<MapSettings>
    rasters,    \* State.rasters: name -> Option<Raster>
    styles,     \* State.styles:  name -> Option<Composite>
    vectors,    \* State.vectors: name -> Option<Vector>
    req,        \* the tile requests in flight, one record per worker
    reg,        \* the registrations in flight, one record per worker
    probe       \* the input and the result of a library function under test

vars == <<maps, rasters, styles, vectors, req, reg, probe>>

----------------------------------------------------------------------------
(* Option and Result *)

None == <<>>
Some(v) == <<v>>
IsSome(o) == Len(o) = 1
IsNone(o) == Len(o) = 0
Unwrap(o) == o[1]
UnwrapOr(o, d) == IF IsSome(o) THEN o[1] ELSE d

Ok(v) == [ok |-> TRUE, val |-> v]
Err(e) == [ok |-> FALSE, err |-> e]
Msg(text) == [kind |-> "Msg", text |-> text]
\* The quoting of format!: a name between backquotes, and {:?} of a string.
Backquoted(s) == [backquoted |-> s]
DebugQuoted(s) == [quoted |-> s]
GdalError(what) == [kind |-> "GdalError", text |-> <<what>>]

Max(a, b) == IF a >= b THEN a ELSE b
Min(a, b) == IF a <= b THEN a ELSE b

----------------------------------------------------------------------------
(* windows.rs *)

Window(col_off, row_off, width, height) ==
    [col_off |-> col_off, row_off |-> row_off, width |-> width, height |-> height]

WindowDefault == Window(0, 0, 0, 0)

is_zero(w) == w.height = 0 \/ w.width = 0

intersection2_first_offset(w0, w1) ==
    IF is_zero(w0) \/ is_zero(w1) THEN WindowDefault
    ELSE
    LET v0 == w0.col_off
        v1 == Min(w0.col_off + w0.width, w1.col_off + w1.width)
        h0 == w0.row_off
        h1 == Min(w0.row_off + w0.height, w1.row_off + w1.height)
    IN  IF v0 >= v1 THEN WindowDefault
        ELSE IF h0 >= h1 THEN WindowDefault
        ELSE Window(v0, h0, v1 - v0, h1 - h0)

intersection2(w0, w1) ==
    IF is_zero(w0) \/ is_zero(w1) THEN WindowDefault
    ELSE
    LET v0 == Max(w0.col_off, w1.col_off)
        v1 == Min(w0.col_off + w0.width, w1.col_off + w1.width)
        h0 == Max(w0.row_off, w1.row_off)
        h1 == Min(w0.row_off + w0.height, w1.row_off + w1.height)
    IN  IF v0 >= v1 THEN WindowDefault
        ELSE IF h0 >= h1 THEN WindowDefault
        ELSE Window(v0, h0, v1 - v0, h1 - h0)

\* Iterator::reduce: None on an empty list, else the left fold from the first.
RECURSIVE reduce_from(_, _, _)
reduce_from(acc, ws, i) ==
    IF i > Len(ws) THEN acc ELSE reduce_from(intersection2(acc, ws[i]), ws, i + 1)

intersection(windows) ==
    IF Len(windows) = 0 THEN None
    ELSE LET w == reduce_from(windows[1], windows, 2)
         IN  IF w = WindowDefault THEN None ELSE Some(w)

----------------------------------------------------------------------------
(* The datasets the raster access provider can open.  A path that is not   *)
(* listed does not open.  Band values are the provider's answers:          *)
(* no_data is band.no_data_value(), min_max is compute_raster_min_max.     *)

Dataset(path) ==
    CASE path = "one.tif" ->
            Some([driver |-> "GTiff", raster_count |-> 1, raster_size |-> <<4, 4>>,
                  no_data |-> <<None>>,
                  min_max |-> << <<2, 9>> >>])
      [] path = "two.tif" ->
            Some([driver |-> "GTiff", raster_count |-> 2, raster_size |-> <<4, 4>>,
                  no_data |-> <<Some(7), None>>,
                  min_max |-> << <<0, 5>>, <<1, 6>> >>])
      [] path = "rgb.tif" ->
            Some([driver |-> "GTiff", raster_count |-> 3, raster_size |-> <<4, 4>>,
                  no_data |-> <<Some(255), None, Some(0)>>,
                  min_max |-> << <<1, 5>>, <<2, 6>>, <<3, 7>> >>])
      [] path = "dem.tif" ->
            Some([driver |-> "GTiff", raster_count |-> 1, raster_size |-> <<4, 4>>,
                  no_data |-> <<Some(-1)>>,
                  min_max |-> << <<0, 8>> >>])
      [] path = "world.mbtiles" ->
            Some([driver |-> "MBTiles", raster_count |-> 4, raster_size |-> <<4, 4>>,
                  no_data |-> <<None, None, None, None>>,
                  min_max |-> << <<0, 255>>, <<0, 255>>, <<0, 255>>, <<0, 255>> >>])
      [] OTHER -> None

----------------------------------------------------------------------------
(* style.rs, mapsettings.rs *)

Style(name, colours, vmin, vmax, bands) ==
    [name |-> name, colours |-> colours, vmin |-> vmin, vmax |-> vmax, bands |-> bands]

\* ColourDefinition: the variant and its two payloads.
ColourDefinition(kind, a, b) == [kind |-> kind, a |-> a, b |-> b]
RGB(vmin, vmax) == ColourDefinition("RGB", vmin, vmax)
Colours(cols) == ColourDefinition("Colours", cols, <<>>)
ColoursAndBreaks(cb) == ColourDefinition("ColoursAndBreaks", cb, <<>>)
Discrete(cb) == ColourDefinition("Discrete", cb, <<>>)

\* An f64 pixel value, limit, break or no-data value v is carried as the
\* integer v * ValueDen, a colour component c as the integer c * ComponentDen.
ValueDen == 4
ComponentDen == 1000000

Black == <<0, 0, 0, ComponentDen>>
White == <<ComponentDen, ComponentDen, ComponentDen, ComponentDen>>

StyleDefault ==
    Style(None, Some(Colours(<<Black, White>>)), Some(0), Some(ValueDen), Some(<<1>>))

MapSettings(name, path, no_data_value, style) ==
    [name |-> name, path |-> path, no_data_value |-> no_data_value, style |-> style,
     extent |-> None, driver_name |-> None, xml |-> None]

----------------------------------------------------------------------------
(* cmap.rs: the colour maps and the constructors of Composite *)

VIRIDIS7 ==
    << <<267004, 4874, 329415, ComponentDen>>, <<267968, 223549, 512008, ComponentDen>>,
       <<190631, 407061, 556089, ComponentDen>>, <<127568, 566949, 550556, ComponentDen>>,
       <<208030, 718701, 472873, ComponentDen>>, <<565498, 842430, 262877, ComponentDen>>,
       <<993248, 906157, 143936, ComponentDen>> >>

INFERNO7 ==
    << <<1462, 466, 13866, ComponentDen>>, <<197297, 38400, 367535, ComponentDen>>,
       <<472328, 110547, 428334, ComponentDen>>, <<735683, 215906, 330245, ComponentDen>>,
       <<929644, 411479, 145367, ComponentDen>>, <<986175, 713153, 103863, ComponentDen>>,
       <<988362, 998364, 644924, ComponentDen>> >>

\* A Gradient: its stops in the order given, stop i at position at / den.
Gradient(den, stops) == [den |-> den, stops |-> stops]

\* Array::linspace(vmin, vmax, n) zipped with the colours: stop i (from 0) is at
\* vmin + i * (vmax - vmin) / (n - 1).
make_gradient(vmin, vmax, rgba) ==
    LET n == Len(rgba)
        den == IF n > 1 THEN n - 1 ELSE 1
    IN  Gradient(den, [i \in 1..n |->
                        [at |-> vmin * den + (i - 1) * (vmax - vmin), colour |-> rgba[i]]])

make_gradient_with_breaks(nums) ==
    Gradient(1, [i \in 1..Len(nums) |-> [at |-> nums[i][1], colour |-> nums[i][2]]])

viridis(vmin, vmax) == make_gradient(vmin, vmax, VIRIDIS7)
inferno(vmin, vmax) == make_gradient(vmin, vmax, INFERNO7)

Composite(display, gradient, hashmap, colour_definition, vmin, vmax, len) ==
    [display |-> display, gradient |-> gradient, hashmap |-> hashmap,
     colour_definition |-> colour_definition, vmin |-> vmin, vmax |-> vmax, len |-> len]

\* Composite::default(): what ..Default::default() leaves in place.
CompositeDefaultDefinition == Colours(<<<<0, 0, 0, 0>>, White>>)
CompositeDefaultGradient == Some(viridis(0, ValueDen))
CompositeDefaultVmin == Some(<<0>>)
CompositeDefaultVmax == Some(<<ValueDen>>)

\* cmap_f is the name of the colour-map function handed over.
new_gradient(vmin, vmax, cmap_f) ==
    Composite("Gradient",
              Some(IF cmap_f = "inferno" THEN inferno(vmin, vmax) ELSE viridis(vmin, vmax)),
              None, CompositeDefaultDefinition, Some(<<vmin>>), Some(<<vmax>>), 1)

new_custom_gradient(vmin, vmax, colours) ==
    Composite("Gradient", Some(make_gradient(vmin, vmax, colours)), None,
              Colours(colours), Some(<<vmin>>), Some(<<vmax>>), 1)

new_gradient_with_breaks(cols_and_breaks) ==
    Composite("GradientWithBreaks", Some(make_gradient_with_breaks(cols_and_breaks)), None,
              ColoursAndBreaks(cols_and_breaks), CompositeDefaultVmin, CompositeDefaultVmax, 1)

\* The caller hands over vectors of three limits (anything else panics in
\* try_into().expect()).
new_rgb(vmin, vmax) ==
    Composite("RGBComposite", None, None, RGB(vmin, vmax), Some(vmin), Some(vmax), 3)

\* The palette is collected into a HashMap: of two entries with one key the
\* later one stays.  The map is kept as the list it was collected from.
new_discrete_palette(cols_and_breaks) ==
    Composite("DiscretePalette", CompositeDefaultGradient, Some(cols_and_breaks),
              Discrete(cols_and_breaks), CompositeDefaultVmin, CompositeDefaultVmax, 1)

n_bands(comp) == comp.len

is_contiguous(comp) == comp.colour_definition.kind # "RGB"

StyleToComposite_colours_first(style) ==
    LET vmin == Unwrap(style.vmin)
        vmax == Unwrap(style.vmax)
    IN  IF IsSome(style.colours) THEN
            LET col_def == Unwrap(style.colours)
            IN  CASE col_def.kind = "Colours" -> new_custom_gradient(vmin, vmax, col_def.a)
                  [] col_def.kind = "ColoursAndBreaks" -> new_gradient_with_breaks(col_def.a)
                  [] col_def.kind = "RGB" -> new_rgb(col_def.a, col_def.b)
                  [] OTHER -> new_discrete_palette(col_def.a)
        ELSE IF IsSome(style.name) /\ Unwrap(style.name) = "inferno"
        THEN new_gradient(vmin, vmax, "inferno")
        ELSE new_gradient(vmin, vmax, "viridis")

\* impl From<&Style> for Composite; vmin and vmax are present after fill_style.
StyleToComposite(style) ==
    LET vmin == Unwrap(style.vmin)
        vmax == Unwrap(style.vmax)
    IN  IF IsSome(style.name) THEN
            CASE Unwrap(style.name) = "viridis" -> new_gradient(vmin, vmax, "viridis")
              [] Unwrap(style.name) = "inferno" -> new_gradient(vmin, vmax, "inferno")
              [] OTHER -> new_gradient(vmin, vmax, "viridis")
        ELSE IF IsSome(style.colours) THEN
            LET col_def == Unwrap(style.colours)
            IN  CASE col_def.kind = "Colours" -> new_custom_gradient(vmin, vmax, col_def.a)
                  [] col_def.kind = "ColoursAndBreaks" -> new_gradient_with_breaks(col_def.a)
                  [] col_def.kind = "RGB" -> new_rgb(col_def.a, col_def.b)
                  [] OTHER -> new_discrete_palette(col_def.a)
        ELSE new_gradient(vmin, vmax, "viridis")

get_bands(map) == Unwrap(Unwrap(map.style).bands)
get_no_data_values(map) == Unwrap(map.no_data_value)
to_composite(map) == StyleToComposite(Unwrap(map.style))

----------------------------------------------------------------------------
(* state.rs: the validation steps of a registration *)

\* Raster::from_src: the metadata cached from an open dataset.
Raster(path, src) ==
    [path |-> path, driver_name |-> src.driver, raster_count |-> src.raster_count,
     raster_size |-> src.raster_size, min_max |-> src.min_max]

validate_no_data_values_unchecked(src, map) ==
    IF IsNone(map.no_data_value) THEN
        Ok([map EXCEPT !.no_data_value =
                Some([i \in 1..src.raster_count |-> UnwrapOr(src.no_data[i], 0)])])
    ELSE Ok(map)

\* Ok(map with no_data_value filled) or Err(Msg).
validate_no_data_values(src, map) ==
    IF IsNone(map.no_data_value) THEN
        Ok([map EXCEPT !.no_data_value =
                Some([i \in 1..src.raster_count |-> UnwrapOr(src.no_data[i], 0)])])
    ELSE IF Len(Unwrap(map.no_data_value)) # src.raster_count THEN
        Err(Msg(<<"The raster has ", src.raster_count,
                  " bands. Expected the same number of no_data values">>))
    ELSE Ok(map)

validate_bands_rgb_as_gradient(map) ==
    IF IsSome(map.style) /\ IsSome(Unwrap(map.style).colours) THEN
        LET style == Unwrap(map.style)
        IN  IF IsSome(style.bands) THEN
                IF Len(Unwrap(style.bands)) # 1 THEN
                    Err(Msg(<<"To use a Gradient style you need to provide 1 band for map ", Backquoted(map.name)>>))
                ELSE Ok(<<>>)
            ELSE Err(Msg(<<"You need to provide selected bands for map ", Backquoted(map.name)>>))
    ELSE Ok(<<>>)

validate_bands(map) ==
    IF IsSome(map.style) /\ IsSome(Unwrap(map.style).colours) THEN
        LET style == Unwrap(map.style)
            col_def == Unwrap(style.colours)
        IN  IF IsSome(style.bands) THEN
                LET bands == Unwrap(style.bands)
                IN  IF col_def.kind = "RGB" THEN
                        IF Len(bands) # 3 THEN
                            Err(Msg(<<"To use a RGB style you need to provide 3 bands for map ", Backquoted(map.name)>>))
                        ELSE Ok(<<>>)
                    ELSE
                        IF Len(bands) # 1 THEN
                            Err(Msg(<<"To use a Gradient style you need to provide 1 band for map ", Backquoted(map.name)>>))
                        ELSE Ok(<<>>)
            ELSE Err(Msg(<<"You need to provide selected bands for map ", Backquoted(map.name)>>))
    ELSE Ok(<<>>)

fill_style(map) ==
    LET default_syle == StyleDefault
        default_bands == Unwrap(default_syle.bands)
        default_vmin == Unwrap(default_syle.vmin)
        default_vmax == Unwrap(default_syle.vmax)
        style == UnwrapOr(map.style, default_syle)
        filled == [style EXCEPT !.bands = Some(UnwrapOr(style.bands, default_bands)),
                                !.vmin = Some(UnwrapOr(style.vmin, default_vmin)),
                                !.vmax = Some(UnwrapOr(style.vmax, default_vmax))]
    IN  [map EXCEPT !.style = Some(filled)]

\* init_state, "calculate band min/max": the style given to a map that has none.
init_state_auto_style(map, raster) ==
    LET min_max == raster.min_max
    IN  IF IsNone(map.style) /\ raster.raster_count >= 3 THEN
            [map EXCEPT !.style = Some(Style(None,
                Some(RGB(<<min_max[1][1], min_max[1][1], min_max[3][1]>>,
                         <<min_max[1][2], min_max[2][2], min_max[3][2]>>)),
                None, None, Some(<<1, 2, 3>>)))]
        ELSE IF IsNone(map.style) /\ raster.raster_count < 3 THEN
            [map EXCEPT !.style = Some(Style(Some("viridis"), None,
                Some(min_max[1][1]), Some(min_max[1][2]), Some(<<1>>)))]
        ELSE map

\* add_map, "auto assign style if not specified".
add_map_auto_style(map, raster) ==
    LET min_max == raster.min_max
    IN  IF IsNone(map.style) /\ raster.raster_count >= 3 THEN
            [map EXCEPT !.style = Some(Style(None,
                Some(RGB(<<min_max[1][1], min_max[2][1], min_max[3][1]>>,
                         <<min_max[1][2], min_max[2][2], min_max[3][2]>>)),
                None, None, Some(<<1, 2, 3>>)))]
        ELSE IF IsNone(map.style) /\ raster.raster_count < 3 THEN
            [map EXCEPT !.style = Some(Style(Some("viridis"), None,
                Some(min_max[1][1]), Some(min_max[1][2]), Some(<<1>>)))]
        ELSE map

\* The part of a registration that both paths share up to the insertions:
\* open the dataset, derive the metadata, assign the automatic style, validate,
\* fill the style.  Ok([map, raster, style]) or the first error.
Prepare(map0, path_of_entry) ==
    LET opened == Dataset(map0.path)
    IN  IF IsNone(opened) THEN Err(GdalError("open"))
        ELSE
        LET src == Unwrap(opened)
            map1 == [map0 EXCEPT
                        !.extent = IF IsNone(map0.extent)
                                   THEN Some(Window(0, 0, src.raster_size[1], src.raster_size[2]))
                                   ELSE map0.extent,
                        !.driver_name = Some(src.driver)]
            raster == Raster(map0.path, src)
            map2 == IF path_of_entry = "init_state"
                    THEN init_state_auto_style(map1, raster)
                    ELSE add_map_auto_style(map1, raster)
            nd == validate_no_data_values(src, map2)
        IN  IF ~nd.ok THEN nd
            ELSE LET vb == validate_bands(nd.val)
                 IN  IF ~vb.ok THEN vb
                     ELSE LET map3 == fill_style(nd.val)
                          IN  Ok([map |-> map3, raster |-> raster,
                                  style |-> to_composite(map3)])

----------------------------------------------------------------------------
(* tiles.rs: Tile::set_extension and Tile::to_window *)

SUPPORTED_FORMATS == {"png"}

set_extension_accepts_any(ext) == Ok(ext)

set_extension(ext) ==
    IF ext \notin SUPPORTED_FORMATS THEN
        Err(Msg(<<"The extension ", DebugQuoted(ext), " is not yet supported">>))
    ELSE Ok(ext)

\* usize is 64 bits wide in the program; the model keeps 30 of them, which
\* TLC's integers can hold and which wrap in the same way.
UsizeModulus == 2^30
AsUsize(x) == x % UsizeModulus

\* The four corners (row, col) of a tile in the pixel space of a raster, as the
\* coordinate transformation and the inverse geotransform give them
\* (get_row_cols): upper-left, upper-right, lower-right, lower-left.
Box(r0, c0, r1, c1) == << <<r0, c0>>, <<r0, c1>>, <<r1, c1>>, <<r1, c0>> >>

is_skewed_rows_only(row_cols) ==
    \/ row_cols[1][1] # row_cols[2][1]
    \/ row_cols[3][1] # row_cols[4][1]

is_skewed(row_cols) ==
    \/ row_cols[1][1] # row_cols[2][1]
    \/ (row_cols[3][1] # row_cols[4][1] \/ row_cols[1][2] # row_cols[4][2])
    \/ row_cols[2][2] # row_cols[3][2]

\* The tail of Tile::to_window, from the corners on: (window, is_skewed).
to_window(row_cols) ==
    << Window(Min(row_cols[1][2], row_cols[4][2]),
              Min(row_cols[1][1], row_cols[2][1]),
              AsUsize(AsUsize(Max(row_cols[2][2] - row_cols[1][2],
                                  row_cols[3][2] - row_cols[4][2])) + 1),
              AsUsize(AsUsize(Max(row_cols[4][1] - row_cols[1][1],
                                  row_cols[3][1] - row_cols[2][1])) + 1)),
       is_skewed(row_cols) >>

\* Raster::intersects, given the corners of the tile on this raster.
raster_intersects(raster, row_cols) ==
    LET raster_win == Window(0, 0, raster.raster_size[1], raster.raster_size[2])
    IN  IsSome(intersection(<<raster_win, to_window(row_cols)[1]>>))

----------------------------------------------------------------------------
(* png.rs, raster/pixels.rs, cmap.rs: what a tile request computes once it *)
(* holds its copies of the settings, the raster and the composite          *)

\* into_png of a pixel array: the encoder is a function of the bytes it is given.
into_png(pixels) == <<"PNG", pixels>>

\* empty_png(): the encoding of the all-zero 4 x 256 x 256 array.
EMPTY_PNG == into_png("zeros")

Response(status, body) ==
    [status |-> status, body |-> body, panic |-> "", did_read |-> FALSE, did_style |-> FALSE]

Panic(message, did_read, did_style) ==
    [status |-> 0, body |-> <<>>, panic |-> message,
     did_read |-> did_read, did_style |-> did_style]

\* The tiles a client asks for, and for each the corners the provider finds
\* on a 4 x 4 raster; "nowhere" is a tile whose transformation fails.
Tiles == {"inside", "overhang", "outside", "nowhere"}

ProviderRowCols(tile) ==
    CASE tile = "inside" -> Some(Box(1, 1, 2, 2))
      [] tile = "overhang" -> Some(Box(2, 2, 5, 5))
      [] tile = "outside" -> Some(Box(4, 4, 7, 7))
      [] OTHER -> None

\* HandleGet::get on one lane of n values with the no-data vector ndv:
\* "" when it returns a colour, else the message of the panic.
composite_get(comp, n, ndv) ==
    CASE comp.colour_definition.kind = "Discrete" ->
            IF n = 0 THEN "index out of bounds" ELSE ""
      [] comp.colour_definition.kind \in {"Colours", "ColoursAndBreaks"} ->
            IF n = 0 THEN "index out of bounds"
            ELSE IF Len(ndv) # 1 THEN "To use a style you need to provide 1 no_data value"
            ELSE ""
      [] OTHER ->
            IF n > Len(Unwrap(comp.vmax)) THEN "index out of bounds"
            ELSE IF n < 3 THEN "index out of bounds"
            ELSE IF Len(ndv) # 3 THEN "To use a style you need to provide 3 no_data values"
            ELSE ""

\* Style for Generic: every lane of the (n, 256, 256) array goes through get;
\* a contiguous composite takes the lane as a slice, which a lane of more
\* than one band is not.
generic_style(comp, n, ndv) ==
    IF is_contiguous(comp) /\ n > 1 THEN "called Option::unwrap() on a None value"
    ELSE composite_get(comp, n, ndv)

\* Lines 24 to 51 of get_tile: from the intersection test to the response.
\* content is what the styled pixels turn out to be.
render_skips_intersects(req_map, raster, style_gradient, tile, content) ==
    LET bands == get_bands(req_map)
        no_data_value == get_no_data_values(req_map)
    IN  IF IsNone(ProviderRowCols(tile)) THEN Response(500, <<"GdalError">>)
        ELSE IF \E i \in 1..Len(bands) : bands[i] < 1 \/ bands[i] > Len(no_data_value)
        THEN Panic("index out of bounds", FALSE, FALSE)
        ELSE
        LET style_no_data_value == [i \in 1..Len(bands) |-> no_data_value[bands[i]]]
            styled == generic_style(style_gradient, Len(bands), style_no_data_value)
        IN  IF styled # "" THEN Panic(styled, TRUE, TRUE)
            ELSE [Response(200, into_png(content)) EXCEPT !.did_read = TRUE,
                                                         !.did_style = TRUE]

render(req_map, raster, style_gradient, tile, content) ==
    LET row_cols == ProviderRowCols(tile)
    IN  IF IsNone(row_cols) THEN Response(500, <<"GdalError">>)
        ELSE IF ~raster_intersects(raster, Unwrap(row_cols)) THEN Response(200, EMPTY_PNG)
        ELSE
        LET bands == get_bands(req_map)
            no_data_value == get_no_data_values(req_map)
            mbtiles == raster.driver_name = "MBTiles"
            \* read_tile reads every band of an MBTiles raster, else the selection
            read_bands == IF mbtiles THEN [i \in 1..raster.raster_count |-> i] ELSE bands
        IN  IF \E i \in 1..Len(bands) : bands[i] < 1 \/ bands[i] > Len(no_data_value)
            THEN Panic("index out of bounds", FALSE, FALSE)
            ELSE IF \E i \in 1..Len(read_bands) : read_bands[i] > raster.raster_count
            THEN [Response(500, <<"GdalError">>) EXCEPT !.did_read = TRUE]
            ELSE
            LET style_no_data_value == [i \in 1..Len(bands) |-> no_data_value[bands[i]]]
                styled == IF mbtiles THEN ""
                          ELSE generic_style(style_gradient, Len(read_bands),
                                             style_no_data_value)
            IN  IF styled # "" THEN Panic(styled, TRUE, TRUE)
                ELSE [Response(200, into_png(content)) EXCEPT !.did_read = TRUE,
                                                             !.did_style = TRUE]

----------------------------------------------------------------------------
(* The server: the registry (state.rs), the registrations and the tile     *)
(* requests (endpoints/get_tile.rs).  Every access to one of the four      *)
(* registry maps takes that map's lock, uses it and releases it within     *)
(* one step; what lies between two accesses is local to the worker.        *)

\* A registration names its map, or leaves the name empty and gets a UUID.
Uuids == {"u1"}
Names == {"a"} \cup Uuids

Requests == {"q1"}
Registrars == {"w1"}

\* The settings a client posts to /map.
AddMapInputs ==
    { MapSettings("a", "rgb.tif", None, None),
      MapSettings("a", "one.tif", None, None),
      MapSettings("", "one.tif", None, None),
      MapSettings("a", "rgb.tif", None,
                  Some(Style(Some("viridis"), None, None, None, Some(<<1, 2, 3>>)))),
      MapSettings("a", "one.tif", None,
                  Some(Style(None, Some(Discrete(<<<<0, Black>>>>)), None, None, Some(<<1>>)))),
      MapSettings("a", "one.tif", Some(<<0, 0>>), None),
      MapSettings("a", "one.tif", None,
                  Some(Style(None, Some(RGB(<<0, 0, 0>>, <<1, 1, 1>>)), None, None,
                             Some(<<1>>)))),
      MapSettings("a", "bad.tif", None, None) }

\* The vector sources a client registers: one that opens and one that does not.
VectorPaths == {"roads.shp", "bad.shp"}

\* The configuration files the server can be started with.
Configs ==
    { <<>>,
      << MapSettings("a", "rgb.tif", None, None) >>,
      << MapSettings("a", "one.tif", None, None) >>,
      << MapSettings("a", "one.tif", None, None), MapSettings("a", "rgb.tif", None, None) >> }

EmptyRegistry == [n \in Names |-> None]

\* init_state: the three maps after the settings of the configuration file,
\* or the first error.
RECURSIVE init_state_from(_, _, _)
init_state_from(settings, i, acc) ==
    IF i > Len(settings) THEN Ok(acc)
    ELSE LET r == Prepare(settings[i], "init_state")
         IN  IF ~r.ok THEN r
             ELSE LET name == r.val.map.name
                  IN  init_state_from(settings, i + 1,
                        [styles |-> [acc.styles EXCEPT ![name] = Some(r.val.style)],
                         maps |-> [acc.maps EXCEPT ![name] = Some(r.val.map)],
                         rasters |-> [acc.rasters EXCEPT ![name] = Some(r.val.raster)]])

init_state(settings) ==
    init_state_from(settings, 1,
        [styles |-> EmptyRegistry, maps |-> EmptyRegistry, rasters |-> EmptyRegistry])

IdleRequest ==
    [pc |-> "idle", map_name |-> "", y_ext |-> None, ext |-> "", tile |-> "",
     req_map |-> None, raster |-> None, style |-> None, resp |-> None]

IdleRegistrar ==
    [pc |-> "idle", input |-> None, prep |-> None, result |-> None]

NoProbe == [op |-> "none"]

Init ==
    /\ \E conf \in Configs :
          LET st == init_state(conf)
          IN  /\ st.ok
              /\ maps = st.val.maps
              /\ rasters = st.val.rasters
              /\ styles = st.val.styles
    /\ vectors = EmptyRegistry
    /\ req = [q \in Requests |-> IdleRequest]
    /\ reg = [w \in Registrars |-> IdleRegistrar]
    /\ probe = NoProbe

registry == <<maps, rasters, styles, vectors>>

\* A UUID is fresh: no map carries it and no registration in flight holds it.
FreshUuids ==
    {u \in Uuids :
        /\ IsNone(maps[u])
        /\ \A w \in Registrars : IsNone(reg[w].prep) \/ Unwrap(reg[w].prep).map.name # u}

----------------------------------------------------------------------------
(* State::add_map *)

AddMapStoresBeforeValidating(w) ==
    /\ reg[w].pc = "idle"
    /\ \E input \in AddMapInputs :
          /\ input.name # ""
          /\ LET r == Prepare(input, "add_map")
             IN  /\ reg' = [reg EXCEPT ![w] =
                        IF r.ok
                        THEN [pc |-> "insert_style", input |-> Some(input),
                              prep |-> Some(r.val), result |-> None]
                        ELSE [pc |-> "done", input |-> Some(input),
                              prep |-> None, result |-> Some(r)]]
                 /\ maps' = [maps EXCEPT ![input.name] = Some(input)]
    /\ UNCHANGED <<rasters, styles, vectors, req, probe>>

\* Lines 228 to 325: everything up to the first insertion.  An error returns
\* at once; otherwise the worker holds the settings, the raster and the
\* composite it is about to store.
AddMapValidate(w) ==
    /\ reg[w].pc = "idle"
    /\ \E input \in AddMapInputs, uuid \in Uuids :
          /\ input.name = "" => uuid \in FreshUuids
          /\ LET map == IF input.name = "" THEN [input EXCEPT !.name = uuid] ELSE input
                 r == Prepare(map, "add_map")
             IN  reg' = [reg EXCEPT ![w] =
                    IF r.ok
                    THEN [pc |-> "insert_style", input |-> Some(input),
                          prep |-> Some(r.val), result |-> None]
                    ELSE [pc |-> "done", input |-> Some(input),
                          prep |-> None, result |-> Some(r)]]
    /\ UNCHANGED <<maps, rasters, styles, vectors, req, probe>>

\* Lines 326 to 329: self.styles.write().unwrap().insert(name, style_gradient)
AddMapInsertStyle(w) ==
    /\ reg[w].pc = "insert_style"
    /\ LET p == Unwrap(reg[w].prep)
       IN  styles' = [styles EXCEPT ![p.map.name] = Some(p.style)]
    /\ reg' = [reg EXCEPT ![w].pc = "insert_map"]
    /\ UNCHANGED <<maps, rasters, vectors, req, probe>>

\* Line 330: self.maps.write().unwrap().insert(name, map.clone())
AddMapInsertMap(w) ==
    /\ reg[w].pc = "insert_map"
    /\ LET p == Unwrap(reg[w].prep)
       IN  maps' = [maps EXCEPT ![p.map.name] = Some(p.map)]
    /\ reg' = [reg EXCEPT ![w].pc = "insert_raster"]
    /\ UNCHANGED <<rasters, styles, vectors, req, probe>>

\* Lines 331 to 333: the raster is inserted and the settings are returned.
AddMapInsertRaster(w) ==
    /\ reg[w].pc = "insert_raster"
    /\ LET p == Unwrap(reg[w].prep)
       IN  /\ rasters' = [rasters EXCEPT ![p.map.name] = Some(p.raster)]
           /\ reg' = [reg EXCEPT ![w].pc = "done", ![w].result = Some(Ok(p.map))]
    /\ UNCHANGED <<maps, styles, vectors, req, probe>>

(* State::add_map_vector *)

\* Lines 336 to 431: the source is opened, the style sheet is built and
\* Vector::from gives the map a new UUID as its name.
AddMapVectorPrepare(w) ==
    /\ reg[w].pc = "idle"
    /\ \E path \in VectorPaths, uuid \in FreshUuids :
          reg' = [reg EXCEPT ![w] =
              IF path = "roads.shp"
              THEN LET map == [MapSettings(uuid, path, None, None)
                                  EXCEPT !.xml = Some(<<"Map", path>>)]
                   IN  [pc |-> "vector_insert_map", input |-> Some(path),
                        prep |-> Some([map |-> map,
                                       vector |-> [name |-> uuid, style |-> <<"Map", path>>]]),
                        result |-> None]
              ELSE [pc |-> "done", input |-> Some(path), prep |-> None,
                    result |-> Some(Err(GdalError("open")))]]
    /\ UNCHANGED <<maps, rasters, styles, vectors, req, probe>>

\* Lines 433 to 436: self.maps.write().unwrap().insert(map.name, map)
AddMapVectorInsertMap(w) ==
    /\ reg[w].pc = "vector_insert_map"
    /\ LET p == Unwrap(reg[w].prep)
       IN  maps' = [maps EXCEPT ![p.map.name] = Some(p.map)]
    /\ reg' = [reg EXCEPT ![w].pc = "vector_insert_vector"]
    /\ UNCHANGED <<rasters, styles, vectors, req, probe>>

\* Lines 437 to 439: the vector is inserted and the settings are returned.
AddMapVectorInsertVector(w) ==
    /\ reg[w].pc = "vector_insert_vector"
    /\ LET p == Unwrap(reg[w].prep)
       IN  /\ vectors' = [vectors EXCEPT ![p.map.name] = Some(p.vector)]
           /\ reg' = [reg EXCEPT ![w].pc = "done", ![w].result = Some(Ok(p.map))]
    /\ UNCHANGED <<maps, rasters, styles, req, probe>>

\* The endpoint has answered; the worker takes the next registration.
RegistrationDone(w) ==
    /\ reg[w].pc = "done"
    /\ reg' = [reg EXCEPT ![w] = IdleRegistrar]
    /\ UNCHANGED <<maps, rasters, styles, vectors, req, probe>>

----------------------------------------------------------------------------
(* endpoints/get_tile.rs: get_tile *)

Finish(q, resp) == [req EXCEPT ![q].pc = "done", ![q].resp = Some(resp)]

\* get_params: the extension is what follows the dot of y, or "png".
get_params_ext(y_ext) == UnwrapOr(y_ext, "png")

\* Lines 8 to 12: the parameters, the tile and its extension.
GetTileBegin(q) ==
    /\ req[q].pc = "idle"
    /\ \E map_name \in Names, tile \in Tiles, y_ext \in {None, Some("png"), Some("jpg")} :
          LET ext == get_params_ext(y_ext)
              e == set_extension(ext)
              r == [IdleRequest EXCEPT !.map_name = map_name, !.y_ext = y_ext,
                                      !.ext = ext, !.tile = tile]
          IN  req' = [req EXCEPT ![q] =
                  IF ~e.ok
                  THEN [r EXCEPT !.pc = "done", !.resp = Some(Response(501, e.err.text))]
                  ELSE [r EXCEPT !.pc = "get_map"]]
    /\ UNCHANGED <<maps, rasters, styles, vectors, reg, probe>>

\* State::get_map, the condition: maps.read().unwrap().contains_key(map_name)
GetMapContains(q) ==
    /\ req[q].pc = "get_map"
    /\ req' = IF IsSome(maps[req[q].map_name])
              THEN [req EXCEPT ![q].pc = "get_map_clone"]
              ELSE Finish(q, Response(404,
                     <<"The map ", DebugQuoted(req[q].map_name), " does not exist">>))
    /\ UNCHANGED <<maps, rasters, styles, vectors, reg, probe>>

\* State::get_map, the body: maps.read().unwrap().get(map_name).expect(..).clone()
GetMapClone(q) ==
    /\ req[q].pc = "get_map_clone"
    /\ req' = IF IsSome(maps[req[q].map_name])
              THEN [req EXCEPT ![q].pc = "get_raster", ![q].req_map = maps[req[q].map_name]]
              ELSE Finish(q, Panic("State does not contain the map", FALSE, FALSE))
    /\ UNCHANGED <<maps, rasters, styles, vectors, reg, probe>>

\* State::get_raster, the condition, and the unwrap of get_tile on its error.
GetRasterContains(q) ==
    /\ req[q].pc = "get_raster"
    /\ req' = IF IsSome(maps[req[q].map_name])
              THEN [req EXCEPT ![q].pc = "get_raster_clone"]
              ELSE Finish(q, Panic("called Result::unwrap() on an Err value", FALSE, FALSE))
    /\ UNCHANGED <<maps, rasters, styles, vectors, reg, probe>>

\* State::get_raster, the body: rasters.read().unwrap().get(map_name).expect(..).clone()
GetRasterClone(q) ==
    /\ req[q].pc = "get_raster_clone"
    /\ req' = IF IsSome(rasters[req[q].map_name])
              THEN [req EXCEPT ![q].pc = "get_style", ![q].raster = rasters[req[q].map_name]]
              ELSE Finish(q, Panic("State does not contain the raster", FALSE, FALSE))
    /\ UNCHANGED <<maps, rasters, styles, vectors, reg, probe>>

\* State::get_style, the condition, and the unwrap of get_tile on its error.
GetStyleContains(q) ==
    /\ req[q].pc = "get_style"
    /\ req' = IF IsSome(maps[req[q].map_name])
              THEN [req EXCEPT ![q].pc = "get_style_clone"]
              ELSE Finish(q, Panic("called Result::unwrap() on an Err value", FALSE, FALSE))
    /\ UNCHANGED <<maps, rasters, styles, vectors, reg, probe>>

\* State::get_style, the body: styles.read().unwrap().get(map_name).expect(..).clone()
GetStyleClone(q) ==
    /\ req[q].pc = "get_style_clone"
    /\ req' = IF IsSome(styles[req[q].map_name])
              THEN [req EXCEPT ![q].pc = "render", ![q].style = styles[req[q].map_name]]
              ELSE Finish(q, Panic("State does not contain the style", FALSE, FALSE))
    /\ UNCHANGED <<maps, rasters, styles, vectors, reg, probe>>

\* Lines 24 to 51: the intersection test, the read, the styling, the encoding.
GetTileRender(q) ==
    /\ req[q].pc = "render"
    /\ \E content \in {"zeros", "data"} :
          req' = Finish(q, render(Unwrap(req[q].req_map), Unwrap(req[q].raster),
                                  Unwrap(req[q].style), req[q].tile, content))
    /\ UNCHANGED <<maps, rasters, styles, vectors, reg, probe>>

\* The response has been sent (or the panic has ended the task); the worker
\* takes the next request.
GetTileDone(q) ==
    /\ req[q].pc = "done"
    /\ req' = [req EXCEPT ![q] = IdleRequest]
    /\ UNCHANGED <<maps, rasters, styles, vectors, reg, probe>>

Next ==
    \/ \E w \in Registrars :
          \/ AddMapValidate(w)
          \/ AddMapInsertStyle(w)
          \/ AddMapInsertMap(w)
          \/ AddMapInsertRaster(w)
          \/ AddMapVectorPrepare(w)
          \/ AddMapVectorInsertMap(w)
          \/ AddMapVectorInsertVector(w)
          \/ RegistrationDone(w)
    \/ \E q \in Requests :
          \/ GetTileBegin(q)
          \/ GetMapContains(q)
          \/ GetMapClone(q)
          \/ GetRasterContains(q)
          \/ GetRasterClone(q)
          \/ GetStyleContains(q)
          \/ GetStyleClone(q)
          \/ GetTileRender(q)
          \/ GetTileDone(q)

Spec == Init /\ [][Next]_vars

----------------------------------------------------------------------------
(* Properties of the server *)

Done(q) == req[q].pc = "done"
Resp(q) == Unwrap(req[q].resp)

\* C1: a tile request whose extension is not "png" is answered 501 with
\* the message naming the extension, before the registry is consulted and
\* whether or not the map is registered; a request for "png" whose map is not
\* in the registry is answered 404 with the message naming the map; a
\* missing extension counts as "png"; neither answer reads or styles.
C1_Step ==
    \A q \in Requests :
        /\ (req[q].pc = "idle" /\ req'[q].pc # "idle" /\ req'[q].y_ext \notin {None, Some("png")})
              => /\ req'[q].pc = "done"
                 /\ Unwrap(req'[q].resp).status = 501
                 /\ Unwrap(req'[q].resp).body =
                       <<"The extension ", DebugQuoted(Unwrap(req'[q].y_ext)),
                         " is not yet supported">>
        /\ (req[q].pc = "idle" /\ req'[q].pc # "idle" /\ req'[q].y_ext \in {None, Some("png")})
              => req'[q].pc = "get_map" /\ req'[q].ext = "png"
        /\ (req[q].pc = "get_map" /\ req'[q].pc # "get_map" /\ IsNone(maps[req[q].map_name]))
              => /\ req'[q].pc = "done"
                 /\ Unwrap(req'[q].resp).status = 404
                 /\ Unwrap(req'[q].resp).body =
                       <<"The map ", DebugQuoted(req[q].map_name), " does not exist">>

C1_State ==
    \A q \in Requests :
        (Done(q) /\ Resp(q).status \in {501, 404})
            => /\ ~Resp(q).did_read /\ ~Resp(q).did_style /\ Resp(q).panic = ""
               /\ IsNone(req[q].raster) /\ IsNone(req[q].style)
               /\ Resp(q).status = 501 => IsNone(req[q].req_map)

C1_ExtensionBeforeLookup == []C1_State /\ [][C1_Step]_vars

\* A request for a registered map is refused for its extension.
C1_Witness ==
    \E q \in Requests :
        /\ Done(q) /\ Resp(q).status = 501
        /\ IsSome(maps[req[q].map_name]) /\ IsSome(rasters[req[q].map_name])

\* C2: when the raster extent Window(0,0,W,H) and the window of the tile
\* have no intersection the answer is 200 with exactly the empty tile PNG and
\* nothing is read or styled; reading and styling happen only for a tile that
\* intersects.
C2_Rendered(q) == Done(q) /\ IsSome(req[q].style) /\ IsSome(ProviderRowCols(req[q].tile))

C2_Absent(q) ==
    LET size == Unwrap(req[q].raster).raster_size
    IN  intersection(<<Window(0, 0, size[1], size[2]),
                       to_window(Unwrap(ProviderRowCols(req[q].tile)))[1]>>) = None

C2_EmptyIntersectionTransparent ==
    \A q \in Requests :
        C2_Rendered(q) =>
            /\ C2_Absent(q) => /\ Resp(q).status = 200
                               /\ Resp(q).body = EMPTY_PNG
                               /\ ~Resp(q).did_read /\ ~Resp(q).did_style
            /\ (Resp(q).did_read \/ Resp(q).did_style) => ~C2_Absent(q)

C2_Witness ==
    \E q \in Requests :
        C2_Rendered(q) /\ C2_Absent(q) /\ Resp(q).status = 200 /\ Resp(q).body = EMPTY_PNG

\* C3: a tile request that found its name in the settings map also finds
\* it in the rasters map and in the styles map, whatever registrations run
\* beside it (stated for raster maps: those whose settings carry no XML).
C3_LookupsSucceedAfterGetMap ==
    \A q \in Requests :
        (Done(q) /\ IsSome(req[q].req_map) /\ IsNone(Unwrap(req[q].req_map).xml))
            => Resp(q).panic \notin {"State does not contain the raster",
                                     "State does not contain the style",
                                     "called Result::unwrap() on an Err value"}

\* C5: what a raster registration accepted agrees on the number of bands:
\* the composite it stores takes as many bands as the style it stores
\* selects.
C5_AcceptedBandsAgree ==
    \A w \in Registrars :
        (reg[w].pc = "done" /\ IsSome(reg[w].prep) /\ IsNone(Unwrap(reg[w].prep).map.xml))
            => n_bands(Unwrap(reg[w].prep).style) = Len(get_bands(Unwrap(reg[w].prep).map))

\* C8: the step in which a registration returns an error is its first,
\* and it leaves the four registry maps as they were.
C8_Step ==
    \A w \in Registrars :
        (reg[w].pc # "done" /\ reg'[w].pc = "done" /\ ~Unwrap(reg'[w].result).ok)
            => reg[w].pc = "idle" /\ registry' = registry

C8_RejectedLeavesRegistry == [][C8_Step]_vars

\* A registration has been rejected while a map is being served.
C8_Witness ==
    \E w \in Registrars :
        /\ reg[w].pc = "done" /\ ~Unwrap(reg[w].result).ok
        /\ Unwrap(reg[w].result).err.kind = "Msg"
        /\ IsSome(maps["a"]) /\ IsSome(rasters["a"]) /\ IsSome(styles["a"])

\* C9: a tile request for a registered vector map (its settings carry the
\* XML) is answered 200 and does not panic for want of a raster or a
\* composite.
C9_VectorTileServed ==
    \A q \in Requests :
        (Done(q) /\ IsSome(req[q].req_map) /\ IsSome(Unwrap(req[q].req_map).xml))
            => Resp(q).panic = "" /\ Resp(q).status = 200

----------------------------------------------------------------------------
(* Window intersection on its own: probe holds a pair of windows and then  *)
(* what windows.rs computes for it.  The server's variables stay put.      *)

MaxOff == 1
MaxSize == 2

Windows ==
    {Window(c, r, w, h) : c \in -MaxOff..MaxOff, r \in -MaxOff..MaxOff,
                          w \in 0..MaxSize, h \in 0..MaxSize}

ServerIdle ==
    /\ maps = EmptyRegistry
    /\ rasters = EmptyRegistry
    /\ styles = EmptyRegistry
    /\ vectors = EmptyRegistry
    /\ req = [q \in Requests |-> IdleRequest]
    /\ reg = [w \in Registrars |-> IdleRegistrar]

ServerUnchanged == UNCHANGED <<maps, rasters, styles, vectors, req, reg>>

WindowsInit ==
    /\ ServerIdle
    /\ \E a \in Windows, b \in Windows :
          probe = [op |-> "intersection", a |-> a, b |-> b, out |-> None]

Intersect ==
    /\ probe.op = "intersection"
    /\ IsNone(probe.out)
    /\ probe' = [probe EXCEPT !.out =
                    Some([ab |-> intersection(<<probe.a, probe.b>>),
                          ba |-> intersection(<<probe.b, probe.a>>),
                          aa |-> intersection(<<probe.a, probe.a>>)])]
    /\ ServerUnchanged

WindowsNext == Intersect

WindowsSpec == WindowsInit /\ [][WindowsNext]_vars

Intersected == probe.op = "intersection" /\ IsSome(probe.out)

\* C10 as written: the intersection of two windows does not depend on
\* their order, and the intersection of any window with itself is that window.
C10_SymmetricIdempotent ==
    Intersected =>
        /\ Unwrap(probe.out).ab = Unwrap(probe.out).ba
        /\ Unwrap(probe.out).aa = Some(probe.a)

\* C10 amended: the intersection of two windows does not depend on their
\* order; the intersection of a window with itself is that window when its
\* width and height are both non-zero, and is absent otherwise.
C10_SymmetricIdempotentNonEmpty ==
    Intersected =>
        /\ Unwrap(probe.out).ab = Unwrap(probe.out).ba
        /\ ~is_zero(probe.a) => Unwrap(probe.out).aa = Some(probe.a)
        /\ is_zero(probe.a) => Unwrap(probe.out).aa = None

\* Two different overlapping windows have been intersected.
C10_Witness ==
    /\ Intersected
    /\ probe.a # probe.b
    /\ ~is_zero(probe.a)
    /\ IsSome(Unwrap(probe.out).ab)
    /\ Unwrap(probe.out).ab \notin {Some(probe.a), Some(probe.b)}
    /\ Unwrap(probe.out).aa = Some(probe.a)

----------------------------------------------------------------------------
(* The validation steps of a registration on their own: probe holds the    *)
(* settings handed to one of them and then what state.rs computes.         *)

MaxBands == 4
MaxBandIndex == 3
MaxNoData == 4
MaxNoDataValue == 1

DatasetPaths == {"one.tif", "two.tif", "rgb.tif"}

BandLists == UNION {[1..n -> 1..MaxBandIndex] : n \in 0..MaxBands}

NoDataLists == UNION {[1..n -> 0..MaxNoDataValue] : n \in 0..MaxNoData}

ProbeColours ==
    {None,
     Some(RGB(<<0, 0, 0>>, <<9, 9, 9>>)),
     Some(Colours(<<Black, White>>)),
     Some(ColoursAndBreaks(<<<<0, Black>>, <<9, White>>>>)),
     Some(Discrete(<<<<1, Black>>, <<2, White>>>>))}

ProbeStyles ==
    {None} \cup
    {Some(Style(name, colours, None, None, bands)) :
        name \in {None, Some("viridis")},
        colours \in ProbeColours,
        bands \in {None} \cup {Some(l) : l \in BandLists}}

RegistrationInit ==
    /\ ServerIdle
    /\ \/ \E style \in ProbeStyles :
             probe = [op |-> "validate_bands",
                      map |-> MapSettings("test", "one.tif", None, style),
                      out |-> None]
       \/ \E path \in DatasetPaths, nd \in {None} \cup {Some(l) : l \in NoDataLists} :
             probe = [op |-> "validate_no_data_values",
                      map |-> MapSettings("test", path, nd, None),
                      out |-> None]
       \/ \E path \in DatasetPaths, style \in {None, Some(StyleDefault)} :
             probe = [op |-> "auto_style",
                      map |-> MapSettings("test", path, None, style),
                      out |-> None]
       \/ \E path \in DatasetPaths, style \in ProbeStyles,
             path_of_entry \in {"init_state", "add_map"} :
             probe = [op |-> "prepare",
                      map |-> MapSettings("test", path, None, style),
                      path_of_entry |-> path_of_entry,
                      out |-> None]

ValidateBands ==
    /\ probe.op = "validate_bands"
    /\ IsNone(probe.out)
    /\ probe' = [probe EXCEPT !.out = Some(validate_bands(probe.map))]
    /\ ServerUnchanged

ValidateNoDataValues ==
    /\ probe.op = "validate_no_data_values"
    /\ IsNone(probe.out)
    /\ probe' = [probe EXCEPT !.out =
                    Some(validate_no_data_values(Unwrap(Dataset(probe.map.path)), probe.map))]
    /\ ServerUnchanged

\* The same settings through the style assignment of both paths.
AutoStyle ==
    /\ probe.op = "auto_style"
    /\ IsNone(probe.out)
    /\ LET raster == Raster(probe.map.path, Unwrap(Dataset(probe.map.path)))
       IN  probe' = [probe EXCEPT !.out =
                        Some([init_state |-> init_state_auto_style(probe.map, raster).style,
                              add_map |-> add_map_auto_style(probe.map, raster).style])]
    /\ ServerUnchanged

\* A registration up to its insertions, from either path.
Register ==
    /\ probe.op = "prepare"
    /\ IsNone(probe.out)
    /\ probe' = [probe EXCEPT !.out = Some(Prepare(probe.map, probe.path_of_entry))]
    /\ ServerUnchanged

RegistrationNext == ValidateBands \/ ValidateNoDataValues \/ AutoStyle \/ Register

RegistrationSpec == RegistrationInit /\ [][RegistrationNext]_vars

Probed(op) == probe.op = op /\ IsSome(probe.out)

\* C4: validate_bands rejects RGB colours with a band list not of length
\* 3, any other colours with a band list not of length 1, and colours
\* without a band list, each with its own message naming the map; it accepts
\* every other style.
C4_Expected(map) ==
    IF IsNone(map.style) THEN Ok(<<>>)
    ELSE LET style == Unwrap(map.style)
             rgb == IsSome(style.colours) /\ Unwrap(style.colours).kind = "RGB"
             other == IsSome(style.colours) /\ Unwrap(style.colours).kind # "RGB"
         IN  CASE rgb /\ IsSome(style.bands) /\ Len(Unwrap(style.bands)) # 3 ->
                    Err(Msg(<<"To use a RGB style you need to provide 3 bands for map ",
                              Backquoted(map.name)>>))
               [] other /\ IsSome(style.bands) /\ Len(Unwrap(style.bands)) # 1 ->
                    Err(Msg(<<"To use a Gradient style you need to provide 1 band for map ",
                              Backquoted(map.name)>>))
               [] IsSome(style.colours) /\ IsNone(style.bands) ->
                    Err(Msg(<<"You need to provide selected bands for map ",
                              Backquoted(map.name)>>))
               [] OTHER -> Ok(<<>>)

C4_ValidateBands ==
    Probed("validate_bands") => Unwrap(probe.out) = C4_Expected(probe.map)

\* An RGB style over a single band has been rejected.
C4_Witness ==
    /\ Probed("validate_bands")
    /\ IsSome(probe.map.style)
    /\ Unwrap(probe.map.style).colours = Some(RGB(<<0, 0, 0>>, <<9, 9, 9>>))
    /\ Unwrap(probe.map.style).bands = Some(<<1>>)
    /\ ~Unwrap(probe.out).ok

\* C6: validate_no_data_values fills a missing no_data_value with one
\* entry per band (the band's declared value, or 0), rejects a supplied
\* vector whose length is not the raster count with the message naming the
\* count, and keeps a supplied vector of the right length.
C6_ValidateNoData ==
    Probed("validate_no_data_values") =>
        LET src == Unwrap(Dataset(probe.map.path))
            given == probe.map.no_data_value
            out == Unwrap(probe.out)
        IN  /\ IsNone(given) =>
                  /\ out.ok
                  /\ IsSome(out.val.no_data_value)
                  /\ Len(Unwrap(out.val.no_data_value)) = src.raster_count
                  /\ \A i \in 1..src.raster_count :
                        Unwrap(out.val.no_data_value)[i] =
                            IF IsSome(src.no_data[i]) THEN Unwrap(src.no_data[i]) ELSE 0
                  /\ out.val = [probe.map EXCEPT !.no_data_value = out.val.no_data_value]
            /\ (IsSome(given) /\ Len(Unwrap(given)) # src.raster_count) =>
                  out = Err(Msg(<<"The raster has ", src.raster_count,
                                  " bands. Expected the same number of no_data values">>))
            /\ (IsSome(given) /\ Len(Unwrap(given)) = src.raster_count) =>
                  out = Ok(probe.map)

\* A vector of the wrong length has been rejected for a dataset of two
\* bands.
C6_Witness ==
    /\ Probed("validate_no_data_values")
    /\ probe.map.path = "two.tif"
    /\ probe.map.no_data_value = Some(<<0, 1, 0>>)
    /\ ~Unwrap(probe.out).ok

\* C7: for settings without a style both paths assign the same style:
\* RGB over bands 1, 2, 3 with each band's own minimum and maximum when the
\* dataset has three bands or more, else viridis over band 1 with its minimum
\* and maximum.
C7_Expected(src) ==
    IF src.raster_count >= 3
    THEN Some(Style(None,
                    Some(RGB(<<src.min_max[1][1], src.min_max[2][1], src.min_max[3][1]>>,
                             <<src.min_max[1][2], src.min_max[2][2], src.min_max[3][2]>>)),
                    None, None, Some(<<1, 2, 3>>)))
    ELSE Some(Style(Some("viridis"), None,
                    Some(src.min_max[1][1]), Some(src.min_max[1][2]), Some(<<1>>)))

C7_SameDefaultStyle ==
    (Probed("auto_style") /\ IsNone(probe.map.style)) =>
        /\ Unwrap(probe.out).init_state = Unwrap(probe.out).add_map
        /\ Unwrap(probe.out).add_map = C7_Expected(Unwrap(Dataset(probe.map.path)))

----------------------------------------------------------------------------
(* intersection over lists of windows of any length *)

MaxListLen == 3
MaxListOff == 1
MaxListSize == 2

ListWindows ==
    {Window(c, r, w, h) : c \in -MaxListOff..MaxListOff, r \in -MaxListOff..MaxListOff,
                          w \in 0..MaxListSize, h \in 0..MaxListSize}

WindowLists == UNION {[1..n -> ListWindows] : n \in 0..MaxListLen}

WindowListInit ==
    /\ ServerIdle
    /\ \E ws \in WindowLists :
          probe = [op |-> "intersection", windows |-> ws, out |-> None]

IntersectList ==
    /\ probe.op = "intersection"
    /\ IsNone(probe.out)
    /\ probe' = [probe EXCEPT !.out = Some([result |-> intersection(probe.windows)])]
    /\ ServerUnchanged

WindowListNext == IntersectList

WindowListSpec == WindowListInit /\ [][WindowListNext]_vars

Pixels(w) ==
    {<<c, r>> : c \in w.col_off..(w.col_off + w.width - 1),
                r \in w.row_off..(w.row_off + w.height - 1)}

CommonPixels(ws) == {p \in Pixels(ws[1]) : \A i \in 1..Len(ws) : p \in Pixels(ws[i])}

----------------------------------------------------------------------------
(* windows.rs: impl Mul<f64> for Window.  The scalar is an f64, held as    *)
(* its 53-bit significand (hi * 2^27 + lo) and binary exponent, so that    *)
(* the product is rounded as the hardware rounds it.                       *)

F64_MANTISSA_DIGITS == 53
ProductBits == 72

F64(hi, lo, e) == [hi |-> hi, lo |-> lo, e |-> e]

F64_0_5 == F64(33554432, 0, -53)
F64_1_0 == F64(33554432, 0, -52)
F64_1_02 == F64(34225520, 85899346, -52)
F64_1_0_over_1_02 == F64(65793003, 123690847, -53)
F64_1_1 == F64(36909875, 26843546, -52)
F64_1_5 == F64(50331648, 0, -52)
F64_2_0 == F64(33554432, 0, -51)

MantissaBit(k, i) ==
    IF i < 27 THEN (k.lo \div 2^i) % 2
    ELSE IF i < F64_MANTISSA_DIGITS THEN (k.hi \div 2^(i - 27)) % 2
    ELSE 0

\* The exact product significand * n, least significant bit first.
RECURSIVE MulBits(_, _, _, _)
MulBits(k, n, i, carry) ==
    IF i = ProductBits THEN <<>>
    ELSE LET d == MantissaBit(k, i) * n + carry
         IN  <<d % 2>> \o MulBits(k, n, i + 1, d \div 2)

RECURSIVE IntegerPart(_, _, _)
IntegerPart(bits, t, i) ==
    IF i >= ProductBits THEN 0
    ELSE (IF bits[i + 1] = 1 THEN 2^(i - t) ELSE 0) + IntegerPart(bits, t, i + 1)

\* (n as f64 * k).ceil() as isize, for an integer n >= 0 that f64 holds
\* exactly: the exact product is rounded to 53 bits, ties to even, and the
\* ceiling is taken of the rounded value.
F64MulCeil(n, k) ==
    LET p == MulBits(k, n, 0, 0)
        ones == {i \in 1..ProductBits : p[i] = 1}
        len == IF ones = {} THEN 0 ELSE CHOOSE i \in ones : \A j \in ones : j <= i
        s == IF len > F64_MANTISSA_DIGITS THEN len - F64_MANTISSA_DIGITS ELSE 0
        half == s > 0 /\ p[s] = 1
        sticky == \E i \in 1..(s - 1) : p[i] = 1
        up == half /\ (sticky \/ p[s + 1] = 1)
        q(i) == IF i + s + 1 > ProductBits THEN 0 ELSE p[i + s + 1]
        rounded == [i \in 1..ProductBits |->
                       IF up /\ \A j \in 0..(i - 2) : q(j) = 1 THEN 1 - q(i - 1)
                       ELSE q(i - 1)]
        t == -(k.e + s)
        fraction == \E i \in 1..t : rounded[i] = 1
    IN  IntegerPart(rounded, t, IF t > 0 THEN t ELSE 0) + (IF fraction THEN 1 ELSE 0)

\* Integer division of Rust: truncates toward zero.
TruncDiv(a, b) == IF a >= 0 THEN a \div b ELSE -((-a) \div b)

WindowMul_row_shift_by_height(self, rhs) ==
    LET extended_width == F64MulCeil(self.width, rhs)
        extended_height == F64MulCeil(self.height, rhs)
        col_shift == TruncDiv(extended_width - self.width, 2)
        row_shift == TruncDiv(extended_height - self.height, 2)
    IN  Window(self.col_off - col_shift, self.row_off - row_shift,
               AsUsize(extended_width), AsUsize(extended_height))

WindowMul(self, rhs) ==
    LET extended_width == F64MulCeil(self.width, rhs)
        extended_height == F64MulCeil(self.height, rhs)
        col_shift == TruncDiv(extended_width - self.width, 2)
        row_shift == TruncDiv(extended_width - self.width, 2)
    IN  Window(self.col_off - col_shift, self.row_off - row_shift,
               AsUsize(extended_width), AsUsize(extended_height))

MaxScaleOff == 1
MaxScaleSize == 4

ScaleSizes == 0..MaxScaleSize \cup {100}

ScaleWindows ==
    {Window(c, r, w, h) : c \in -MaxScaleOff..MaxScaleOff, r \in -MaxScaleOff..MaxScaleOff,
                          w \in ScaleSizes, h \in ScaleSizes}

Scalars == {F64_0_5, F64_1_0, F64_1_02, F64_1_0_over_1_02, F64_1_1, F64_1_5, F64_2_0}

\* One multiplication, or the documented pair: by 1.02 and then by 1.0 / 1.02.
ScalarLists == {<<k>> : k \in Scalars} \cup {<<F64_1_02, F64_1_0_over_1_02>>}

ScaleInit ==
    /\ ServerIdle
    /\ \E win \in ScaleWindows, rhs \in ScalarLists :
          probe = [op |-> "mul", win |-> win, rhs |-> rhs, applied |-> 0, out |-> win]

Scale ==
    /\ probe.op = "mul"
    /\ probe.applied < Len(probe.rhs)
    /\ probe' = [probe EXCEPT !.applied = @ + 1,
                              !.out = WindowMul(probe.out, probe.rhs[probe.applied + 1])]
    /\ ServerUnchanged

ScaleNext == Scale

ScaleSpec == ScaleInit /\ [][ScaleNext]_vars

C12_Shift(win, k) ==
    LET delta == F64MulCeil(win.width, k) - win.width
    IN  IF delta >= 0 THEN delta \div 2 ELSE -((-delta) \div 2)

\* C12: a window times a positive scalar k has width ceil(k*w) and
\* height ceil(k*h) (the products as f64 forms them), and both offsets lowered
\* by (ceil(k*w) - w) / 2 truncated toward zero; Window(0,0,100,100) * 1.02 is
\* Window(-1,-1,102,102), and that times 1.0 / 1.02 is Window(0,0,100,100).
C12_ScaleWindow ==
    /\ (probe.op = "mul" /\ probe.applied = 1) =>
          LET win == probe.win
              k == probe.rhs[1]
          IN  /\ probe.out.width = F64MulCeil(win.width, k)
              /\ probe.out.height = F64MulCeil(win.height, k)
              /\ probe.out.col_off = win.col_off - C12_Shift(win, k)
              /\ probe.out.row_off = win.row_off - C12_Shift(win, k)
              /\ k = F64_0_5 => /\ probe.out.width = (win.width + 1) \div 2
                                /\ probe.out.height = (win.height + 1) \div 2
              /\ k = F64_1_0 => probe.out = win
              /\ k = F64_1_5 => /\ probe.out.width = (3 * win.width + 1) \div 2
                                /\ probe.out.height = (3 * win.height + 1) \div 2
              /\ k = F64_2_0 => /\ probe.out.width = 2 * win.width
                                /\ probe.out.height = 2 * win.height
              /\ (win = Window(0, 0, 100, 100) /\ k = F64_1_02)
                    => probe.out = Window(-1, -1, 102, 102)
    /\ (probe.op = "mul" /\ probe.applied = 2 /\ probe.win = Window(0, 0, 100, 100))
          => probe.out = Window(0, 0, 100, 100)

\* The documented window has been scaled up and back.
C12_Witness ==
    /\ probe.op = "mul" /\ probe.applied = 2
    /\ probe.win = Window(0, 0, 100, 100)
    /\ probe.rhs = <<F64_1_02, F64_1_0_over_1_02>>
    /\ probe.out = Window(0, 0, 100, 100)

----------------------------------------------------------------------------
(* tiles.rs: Tile::zoom_out and Tile::zoom_in.  A u32 is held as two       *)
(* 16-bit halves, so that x and y reach 2^32 - 1.                          *)

MAXZOOMLEVEL == 32
U16 == 65536

U32(hi, lo) == [hi |-> hi, lo |-> lo]

U32Zero == U32(0, 0)

\* 2^z - 1 for z in 0..32.
U32Ones(z) == IF z <= 16 THEN U32(0, 2^z - 1) ELSE U32(2^(z - 16) - 1, U16 - 1)

\* x * 2 on u32: the product modulo 2^32 and whether it overflowed.
U32Double(x) ==
    [overflow |-> x.hi >= U16 \div 2,
     val |-> U32((x.hi % (U16 \div 2)) * 2 + x.lo \div (U16 \div 2),
                 (x.lo % (U16 \div 2)) * 2)]

\* x + 1 on u32.
U32Succ(x) ==
    IF x.lo < U16 - 1 THEN [overflow |-> FALSE, val |-> U32(x.hi, x.lo + 1)]
    ELSE IF x.hi < U16 - 1 THEN [overflow |-> FALSE, val |-> U32(x.hi + 1, 0)]
    ELSE [overflow |-> TRUE, val |-> U32Zero]

\* x - 1 on u32.
U32Pred(x) ==
    IF x.lo > 0 THEN [overflow |-> FALSE, val |-> U32(x.hi, x.lo - 1)]
    ELSE IF x.hi > 0 THEN [overflow |-> FALSE, val |-> U32(x.hi - 1, U16 - 1)]
    ELSE [overflow |-> TRUE, val |-> U32(U16 - 1, U16 - 1)]

\* x / 2 and x % 2 on u32.
U32Half(x) == U32(x.hi \div 2, (x.hi % 2) * (U16 \div 2) + x.lo \div 2)
U32IsEven(x) == x.lo % 2 = 0

\* Tile::new
Tile(x, y, z) == [x |-> x, y |-> y, z |-> z, ext |-> Some("png")]

zoom_out_step(tile) ==
    LET newx == IF U32IsEven(tile.x) THEN U32Half(tile.x) ELSE U32Half(U32Pred(tile.x).val)
        newy == IF U32IsEven(tile.y) THEN U32Half(tile.y) ELSE U32Half(U32Pred(tile.y).val)
    IN  Tile(newx, newy, tile.z - 1)

RECURSIVE zoom_out_loop(_, _)
zoom_out_loop(return_tile, target_zoom) ==
    IF return_tile.z > target_zoom
    THEN zoom_out_loop(zoom_out_step(return_tile), target_zoom)
    ELSE return_tile

zoom_out_keeps_odd(self, zoom) ==
    IF self.z = 0 THEN None
    ELSE IF U32IsEven(self.x) /\ U32IsEven(self.y)
         THEN Some(zoom_out_loop(Tile(self.x, self.y, self.z), UnwrapOr(zoom, self.z - 1)))
         ELSE Some(Tile(self.x, self.y, self.z - 1))

zoom_out(self, zoom) ==
    IF self.z = 0 THEN None
    ELSE Some(zoom_out_loop(Tile(self.x, self.y, self.z), UnwrapOr(zoom, self.z - 1)))

\* The four tiles one level below, or "overflow" when a coordinate leaves u32
\* (a panic with overflow checks, a wrapped coordinate without).
Children(tile) ==
    LET x2 == U32Double(tile.x)
        y2 == U32Double(tile.y)
        x21 == U32Succ(x2.val)
        y21 == U32Succ(y2.val)
    IN  [overflow |-> x2.overflow \/ y2.overflow \/ x21.overflow \/ y21.overflow,
         tiles |-> <<Tile(x2.val, y2.val, tile.z + 1),
                     Tile(x21.val, y2.val, tile.z + 1),
                     Tile(x21.val, y21.val, tile.z + 1),
                     Tile(x2.val, y21.val, tile.z + 1)>>]

RECURSIVE FlatMapChildren(_, _)
FlatMapChildren(tiles, i) ==
    IF i > Len(tiles) THEN [overflow |-> FALSE, tiles |-> <<>>]
    ELSE LET head == Children(tiles[i])
             rest == FlatMapChildren(tiles, i + 1)
         IN  [overflow |-> head.overflow \/ rest.overflow,
              tiles |-> head.tiles \o rest.tiles]

RECURSIVE zoom_in_loop(_, _, _)
zoom_in_loop(tiles, target_zoom, overflow_checks) ==
    IF tiles[1].z < target_zoom
    THEN LET next == FlatMapChildren(tiles, 1)
         IN  IF next.overflow /\ overflow_checks
             THEN [panic |-> "attempt to multiply with overflow", val |-> None]
             ELSE zoom_in_loop(next.tiles, target_zoom, overflow_checks)
    ELSE [panic |-> "", val |-> Some(tiles)]

zoom_in(self, zoom, overflow_checks) ==
    IF self.z = MAXZOOMLEVEL THEN [panic |-> "", val |-> None]
    ELSE zoom_in_loop(<<Tile(self.x, self.y, self.z)>>, UnwrapOr(zoom, self.z + 1),
                      overflow_checks)

MaxCoord == 1

Zooms == 0..MAXZOOMLEVEL

\* Column or row indices of zoom z: the first and the last few of [0, 2^z).
TileCoords(z) ==
    {U32(0, n) : n \in {m \in 0..MaxCoord : z >= 16 \/ m < 2^z}}
    \cup {U32(U32Ones(z).hi, U32Ones(z).lo - n) :
             n \in {m \in 0..MaxCoord : z >= 16 \/ m < 2^z}}

ZoomArgs(z) == {None} \cup {Some(t) : t \in {z - 1, z, z + 1} \cap Zooms}

TileInit ==
    /\ ServerIdle
    /\ \E z \in Zooms :
       \E x \in TileCoords(z), y \in TileCoords(z), zoom \in ZoomArgs(z),
          overflow_checks \in BOOLEAN :
          probe = [op |-> "tile", tile |-> Tile(x, y, z), zoom |-> zoom,
                   overflow_checks |-> overflow_checks,
                   zoomed_in |-> None, parents |-> None, zoomed_out |-> None]

ZoomIn ==
    /\ probe.op = "tile"
    /\ IsNone(probe.zoomed_in)
    /\ probe' = [probe EXCEPT !.zoomed_in =
                    Some(zoom_in(probe.tile, probe.zoom, probe.overflow_checks))]
    /\ ServerUnchanged

\* child.zoom_out(None) for every tile that zoom_in returned.
ZoomOutChildren ==
    /\ probe.op = "tile"
    /\ IsSome(probe.zoomed_in)
    /\ IsSome(Unwrap(probe.zoomed_in).val)
    /\ IsNone(probe.parents)
    /\ LET children == Unwrap(Unwrap(probe.zoomed_in).val)
       IN  probe' = [probe EXCEPT !.parents =
                        Some([i \in 1..Len(children) |-> zoom_out(children[i], None)])]
    /\ ServerUnchanged

ZoomOut ==
    /\ probe.op = "tile"
    /\ IsNone(probe.zoomed_out)
    /\ probe' = [probe EXCEPT !.zoomed_out = Some(zoom_out(probe.tile, probe.zoom))]
    /\ ServerUnchanged

TileNext == ZoomIn \/ ZoomOutChildren \/ ZoomOut

TileSpec == TileInit /\ [][TileNext]_vars

C13_Twice(c, x) == U32Half(c) = x /\ c.lo % 2 = 0
C13_TwicePlusOne(c, x) == U32Half(c) = x /\ c.lo % 2 = 1

\* C13: for a tile T below zoom 32, zoom_in(None) is the four tiles
\* (2x,2y), (2x+1,2y), (2x+1,2y+1), (2x,2y+1) of zoom z+1 and each of them
\* zooms out to T; zoom_in(None) is None exactly at zoom 32 and zoom_out(None)
\* is None exactly at zoom 0.
C13_ZoomInverse ==
    (probe.op = "tile" /\ IsNone(probe.zoom)) =>
        LET T == probe.tile
        IN  /\ IsSome(probe.zoomed_in) =>
                  LET r == Unwrap(probe.zoomed_in)
                  IN  /\ r.panic = ""
                      /\ IsNone(r.val) <=> T.z = MAXZOOMLEVEL
                      /\ T.z < MAXZOOMLEVEL =>
                            LET c == Unwrap(r.val)
                            IN  /\ Len(c) = 4
                                /\ \A i \in 1..4 : c[i].z = T.z + 1
                                /\ C13_Twice(c[1].x, T.x) /\ C13_Twice(c[1].y, T.y)
                                /\ C13_TwicePlusOne(c[2].x, T.x) /\ C13_Twice(c[2].y, T.y)
                                /\ C13_TwicePlusOne(c[3].x, T.x) /\ C13_TwicePlusOne(c[3].y, T.y)
                                /\ C13_Twice(c[4].x, T.x) /\ C13_TwicePlusOne(c[4].y, T.y)
            /\ IsSome(probe.parents) =>
                  \A i \in DOMAIN Unwrap(probe.parents) : Unwrap(probe.parents)[i] = Some(T)
            /\ IsSome(probe.zoomed_out) =>
                  (IsNone(Unwrap(probe.zoomed_out)) <=> T.z = 0)

\* The last tile of zoom 31 has been zoomed in, to tiles that reach
\* 2^32 - 1, and each of them zoomed out again.
C13_Witness ==
    /\ probe.op = "tile" /\ IsNone(probe.zoom)
    /\ probe.tile = Tile(U32Ones(31), U32Ones(31), 31)
    /\ IsSome(probe.parents)
    /\ Len(Unwrap(probe.parents)) = 4
    /\ Unwrap(Unwrap(probe.zoomed_in).val)[3].x = U32(U16 - 1, U16 - 1)

----------------------------------------------------------------------------
(* tiles.rs: the uses of 2u32.pow(zoom) in Tile::ul, Tile::bounds,         *)
(* Tile::from_lat_lng and get_vertices_offset.  The floating point results *)
(* are kept as the expressions that produce them; what is computed is the  *)
(* u32 arithmetic and the division by z2.                                  *)

\* 2u32.pow(zoom): with overflow checks a product that leaves u32 panics,
\* without them it wraps.
Pow2(zoom, overflow_checks) ==
    IF zoom < 16 THEN [panic |-> "", val |-> U32(0, 2^zoom)]
    ELSE IF zoom < 32 THEN [panic |-> "", val |-> U32(2^(zoom - 16), 0)]
    ELSE IF overflow_checks THEN [panic |-> "attempt to multiply with overflow", val |-> U32Zero]
    ELSE [panic |-> "", val |-> U32Zero]

\* n as f64 / z2: f64 division does not panic; by 0.0 it is NaN or infinite.
F64Div(n, z2) ==
    IF z2 # U32Zero THEN <<n, "/", z2>>
    ELSE IF n = U32Zero THEN "NaN" ELSE "inf"

Computed(z2, val) == [panic |-> "", z2 |-> z2, val |-> val]
Panicked(message) == [panic |-> message, z2 |-> U32Zero, val |-> <<>>]

ul(tile, overflow_checks) ==
    LET p == Pow2(tile.z, overflow_checks)
    IN  IF p.panic # "" THEN Panicked(p.panic)
        ELSE Computed(p.val, [lon_deg |-> <<"lon_deg", F64Div(tile.x, p.val)>>,
                              lat_deg |-> <<"lat_deg", F64Div(tile.y, p.val)>>])

bounds(tile, overflow_checks) ==
    LET p == Pow2(tile.z, overflow_checks)
        x1 == U32Succ(tile.x)
        y1 == U32Succ(tile.y)
    IN  IF p.panic # "" THEN Panicked(p.panic)
        ELSE IF (x1.overflow \/ y1.overflow) /\ overflow_checks
        THEN Panicked("attempt to add with overflow")
        ELSE Computed(p.val,
                 [min_lng_deg |-> <<"lon_deg", F64Div(tile.x, p.val)>>,
                  max_lat_deg |-> <<"lat_deg", F64Div(tile.y, p.val)>>,
                  max_lng_deg |-> <<"lon_deg", F64Div(x1.val, p.val)>>,
                  min_lat_deg |-> <<"lat_deg", F64Div(y1.val, p.val)>>])

\* One coordinate of from_lat_lng: the fraction of the world is at or below
\* 0, at or above 1, or between.
from_lat_lng_coord(fraction, z2, overflow_checks) ==
    IF fraction = "le0" THEN [panic |-> "", val |-> U32Zero]
    ELSE IF fraction = "ge1"
    THEN LET m == U32Pred(z2)
         IN  IF m.overflow /\ overflow_checks
             THEN [panic |-> "attempt to subtract with overflow", val |-> U32Zero]
             ELSE [panic |-> "", val |-> m.val]
    ELSE [panic |-> "", val |-> <<"floor", fraction, "*", z2>>]

from_lat_lng(fractions, zoom, overflow_checks) ==
    LET p == Pow2(zoom, overflow_checks)
        xtile == from_lat_lng_coord(fractions[1], p.val, overflow_checks)
        ytile == from_lat_lng_coord(fractions[2], p.val, overflow_checks)
    IN  IF p.panic # "" THEN Panicked(p.panic)
        ELSE IF xtile.panic # "" THEN Panicked(xtile.panic)
        ELSE IF ytile.panic # "" THEN Panicked(ytile.panic)
        ELSE Computed(p.val, Tile(xtile.val, ytile.val, zoom))

get_vertices_offset(zoom, overflow_checks) ==
    LET p == Pow2(zoom, overflow_checks)
    IN  IF p.panic # "" THEN Panicked(p.panic)
        ELSE Computed(p.val,
                 [tile_res |-> IF p.val = U32Zero THEN "inf"
                               ELSE <<"2*PI*RE/TILE_SIZE", "/", p.val>>])

Fractions == {"le0", "mid", "ge1"}

TileGeometryInit ==
    /\ ServerIdle
    /\ \E z \in Zooms :
       \E x \in TileCoords(z), y \in TileCoords(z), fx \in Fractions, fy \in Fractions,
          overflow_checks \in BOOLEAN :
          probe = [op |-> "geometry", tile |-> Tile(x, y, z), fractions |-> <<fx, fy>>,
                   overflow_checks |-> overflow_checks, out |-> None]

GeometryPending == probe.op = "geometry" /\ IsNone(probe.out)

Ul ==
    /\ GeometryPending
    /\ probe' = [probe EXCEPT !.out =
                    Some([of |-> "ul", r |-> ul(probe.tile, probe.overflow_checks)])]
    /\ ServerUnchanged

Bounds ==
    /\ GeometryPending
    /\ probe' = [probe EXCEPT !.out =
                    Some([of |-> "bounds", r |-> bounds(probe.tile, probe.overflow_checks)])]
    /\ ServerUnchanged

FromLatLng ==
    /\ GeometryPending
    /\ probe' = [probe EXCEPT !.out =
                    Some([of |-> "from_lat_lng",
                          r |-> from_lat_lng(probe.fractions, probe.tile.z,
                                             probe.overflow_checks)])]
    /\ ServerUnchanged

GetVerticesOffset ==
    /\ GeometryPending
    /\ probe' = [probe EXCEPT !.out =
                    Some([of |-> "get_vertices_offset",
                          r |-> get_vertices_offset(probe.tile.z, probe.overflow_checks)])]
    /\ ServerUnchanged

TileGeometryNext == Ul \/ Bounds \/ FromLatLng \/ GetVerticesOffset

TileGeometrySpec == TileGeometryInit /\ [][TileGeometryNext]_vars

\* C14: for every zoom in 0..32 and every tile of that zoom, ul,
\* bounds, from_lat_lng and the vertex offset return a value: nothing panics
\* on overflow and 2^z has not wrapped to zero.
C14_GeometryOverZoomRange ==
    (probe.op = "geometry" /\ IsSome(probe.out)) =>
        /\ Unwrap(probe.out).r.panic = ""
        /\ Unwrap(probe.out).r.z2 # U32Zero

----------------------------------------------------------------------------
(* cmap.rs: HandleGet for Composite, from pixel values to an RGBA colour *)

\* A colour as get returns it, or the panic that ends the call.
Rgba(bytes) == [panic |-> <<>>, val |-> bytes]
GetPanic(message) == [panic |-> message, val |-> <<>>]

INDEX_OUT_OF_BOUNDS == <<"index out of bounds">>
UNWRAP_NONE ==
    <<"called ", Backquoted("Option::unwrap()"), " on a ", Backquoted("None"), " value">>

\* (c * 255.0) as u8 for c = num / den: the cast truncates toward zero and
\* saturates at 0 and 255; 0.0 / 0.0 is NaN, which casts to 0.
as_u8(num, den) ==
    IF den = 0 THEN 0
    ELSE Max(0, Min(255, TruncDiv(255 * num, den)))

\* |a - b| < f64::EPSILON: two values a whole number of 1 / ValueDen apart
\* are that close only when they are equal.
within_epsilon(a, b) == (IF a >= b THEN a - b ELSE b - a) * 1 < 1

\* Gradient::get of the palette crate: the first colour at or below the first
\* stop, the last at or above the last stop, else a binary search for the pair
\* of neighbouring stops and the linear mix of their colours.  The colour is
\* [den, comps]: component k is comps[k] / den.
RECURSIVE gradient_search(_, _, _, _)
gradient_search(grad, i, min_index, max_index) ==
    IF min_index < max_index - 1 THEN
        LET index == min_index + (max_index - min_index) \div 2
        IN  IF i * grad.den <= grad.stops[index].at
            THEN gradient_search(grad, i, min_index, index)
            ELSE gradient_search(grad, i, index, max_index)
    ELSE <<min_index, max_index>>

gradient_get(grad, i) ==
    LET stops == grad.stops
        n == Len(stops)
    IN  IF i * grad.den <= stops[1].at THEN [den |-> ComponentDen, comps |-> stops[1].colour]
        ELSE IF i * grad.den >= stops[n].at
        THEN [den |-> ComponentDen, comps |-> stops[n].colour]
        ELSE LET found == gradient_search(grad, i, 1, n)
                 lo == stops[found[1]]
                 hi == stops[found[2]]
                 span == hi.at - lo.at
                 part == i * grad.den - lo.at
             IN  [den |-> ComponentDen * span,
                  comps |-> [k \in 1..4 |->
                                lo.colour[k] * span + (hi.colour[k] - lo.colour[k]) * part]]

no_data_message(comp, n, values_word) ==
    <<"To use a ", comp.display, " style you need to provide ", n, " ",
      Backquoted("no_data"), " ", values_word>>

gradient_handle_unasserted(comp, values, no_data_values) ==
    IF IsNone(comp.gradient) THEN GetPanic(UNWRAP_NONE)
    ELSE IF Len(values) = 0 THEN GetPanic(INDEX_OUT_OF_BOUNDS)
    ELSE
    LET col == gradient_get(Unwrap(comp.gradient), values[1])
        r == as_u8(col.comps[1], col.den)
        g == as_u8(col.comps[2], col.den)
        b == as_u8(col.comps[3], col.den)
    IN  IF IsSome(no_data_values) THEN
            LET ndv == Unwrap(no_data_values)
            IN  IF Len(ndv) = 0 THEN GetPanic(INDEX_OUT_OF_BOUNDS)
                ELSE IF within_epsilon(values[1], ndv[1]) THEN Rgba(<<r, g, b, 0>>)
                ELSE Rgba(<<r, g, b, as_u8(col.comps[4], col.den)>>)
        ELSE Rgba(<<r, g, b, as_u8(col.comps[4], col.den)>>)

gradient_handle(comp, values, no_data_values) ==
    IF IsNone(comp.gradient) THEN GetPanic(UNWRAP_NONE)
    ELSE IF Len(values) = 0 THEN GetPanic(INDEX_OUT_OF_BOUNDS)
    ELSE
    LET col == gradient_get(Unwrap(comp.gradient), values[1])
        r == as_u8(col.comps[1], col.den)
        g == as_u8(col.comps[2], col.den)
        b == as_u8(col.comps[3], col.den)
    IN  IF IsSome(no_data_values) THEN
            LET ndv == Unwrap(no_data_values)
            IN  IF Len(ndv) # 1 THEN GetPanic(no_data_message(comp, 1, "value"))
                ELSE IF within_epsilon(values[1], ndv[1]) THEN Rgba(<<r, g, b, 0>>)
                ELSE Rgba(<<r, g, b, as_u8(col.comps[4], col.den)>>)
        ELSE Rgba(<<r, g, b, as_u8(col.comps[4], col.den)>>)

rgb_norm_from_zero(comp, values, i) ==
    LET v == values[i]
        vmax == Unwrap(comp.vmax)[i]
        vmin == Unwrap(comp.vmin)[i]
    IN  IF v > vmax THEN [num |-> 1, den |-> 1]
        ELSE IF v < vmin THEN [num |-> 0, den |-> 1]
        ELSE [num |-> v, den |-> vmax]

\* The normalised value of band i as [num, den].
rgb_norm(comp, values, i) ==
    LET v == values[i]
        vmax == Unwrap(comp.vmax)[i]
        vmin == Unwrap(comp.vmin)[i]
    IN  IF v > vmax THEN [num |-> 1, den |-> 1]
        ELSE IF v < vmin THEN [num |-> 0, den |-> 1]
        ELSE [num |-> v - vmin, den |-> vmax - vmin]

rgb_handle_any_band(comp, values, no_data_values) ==
    IF IsNone(comp.vmax) \/ IsNone(comp.vmin) THEN GetPanic(UNWRAP_NONE)
    ELSE IF \E i \in 1..Len(values) :
                i > Len(Unwrap(comp.vmax)) \/ i > Len(Unwrap(comp.vmin))
    THEN GetPanic(INDEX_OUT_OF_BOUNDS)
    ELSE IF Len(values) < 3 THEN GetPanic(INDEX_OUT_OF_BOUNDS)
    ELSE
    LET norm == [i \in 1..Len(values) |-> rgb_norm(comp, values, i)]
        r == as_u8(norm[1].num, norm[1].den)
        g == as_u8(norm[2].num, norm[2].den)
        b == as_u8(norm[3].num, norm[3].den)
    IN  IF IsSome(no_data_values) THEN
            LET ndv == Unwrap(no_data_values)
            IN  IF Len(ndv) # 3 THEN GetPanic(no_data_message(comp, 3, "values"))
                ELSE IF \E i \in 1..Min(Len(ndv), Len(values)) :
                            within_epsilon(values[i], ndv[i])
                THEN Rgba(<<r, g, b, 0>>)
                ELSE Rgba(<<r, g, b, as_u8(1, 1)>>)
        ELSE Rgba(<<r, g, b, as_u8(1, 1)>>)

rgb_handle(comp, values, no_data_values) ==
    IF IsNone(comp.vmax) \/ IsNone(comp.vmin) THEN GetPanic(UNWRAP_NONE)
    ELSE IF \E i \in 1..Len(values) :
                i > Len(Unwrap(comp.vmax)) \/ i > Len(Unwrap(comp.vmin))
    THEN GetPanic(INDEX_OUT_OF_BOUNDS)
    ELSE IF Len(values) < 3 THEN GetPanic(INDEX_OUT_OF_BOUNDS)
    ELSE
    LET norm == [i \in 1..Len(values) |-> rgb_norm(comp, values, i)]
        r == as_u8(norm[1].num, norm[1].den)
        g == as_u8(norm[2].num, norm[2].den)
        b == as_u8(norm[3].num, norm[3].den)
    IN  IF IsSome(no_data_values) THEN
            LET ndv == Unwrap(no_data_values)
            IN  IF Len(ndv) # 3 THEN GetPanic(no_data_message(comp, 3, "values"))
                ELSE IF \A i \in 1..Min(Len(ndv), Len(values)) :
                            within_epsilon(values[i], ndv[i])
                THEN Rgba(<<r, g, b, 0>>)
                ELSE Rgba(<<r, g, b, as_u8(1, 1)>>)
        ELSE Rgba(<<r, g, b, as_u8(1, 1)>>)

\* HashMap::get on the collected palette: the last entry with the key.
hashmap_get(hash, key) ==
    LET found == {i \in 1..Len(hash) : hash[i][1] = key}
    IN  IF found = {} THEN None
        ELSE Some(hash[CHOOSE i \in found : \A j \in found : j <= i][2])

hashmap_handle_floor(comp, values) ==
    IF Len(values) = 0 THEN GetPanic(INDEX_OUT_OF_BOUNDS)
    ELSE IF IsNone(comp.hashmap) THEN GetPanic(UNWRAP_NONE)
    ELSE
    LET c == UnwrapOr(hashmap_get(Unwrap(comp.hashmap), values[1] \div ValueDen),
                      <<0, 0, 0, 0>>)
    IN  Rgba([k \in 1..4 |-> as_u8(c[k], ComponentDen)])

hashmap_handle(comp, values) ==
    IF Len(values) = 0 THEN GetPanic(INDEX_OUT_OF_BOUNDS)
    ELSE IF IsNone(comp.hashmap) THEN GetPanic(UNWRAP_NONE)
    ELSE
    LET val == values[1]
        c == UnwrapOr(hashmap_get(Unwrap(comp.hashmap), TruncDiv(val, ValueDen)),
                      <<0, 0, 0, 0>>)
    IN  Rgba([k \in 1..4 |-> as_u8(c[k], ComponentDen)])

get(comp, values, no_data_values) ==
    CASE comp.colour_definition.kind = "Discrete" -> hashmap_handle(comp, values)
      [] comp.colour_definition.kind \in {"Colours", "ColoursAndBreaks"} ->
            gradient_handle(comp, values, no_data_values)
      [] OTHER -> rgb_handle(comp, values, no_data_values)

\* Style for Generic on one lane of the band axis: a contiguous composite
\* takes the lane as a slice, which a lane of more than one band is not; the
\* no-data vector is always handed over.
style_lane(comp, values, no_data_values) ==
    IF is_contiguous(comp) /\ Len(values) > 1 THEN GetPanic(UNWRAP_NONE)
    ELSE get(comp, values, Some(no_data_values))

----------------------------------------------------------------------------
(* Composites, lanes of pixel values and no-data vectors to colour *)

MaxPixel == 9
MaxNoDataLen == 3

Grey == <<ComponentDen \div 2, ComponentDen \div 2, ComponentDen \div 2, ComponentDen>>
Red == <<ComponentDen, 0, 0, ComponentDen>>
Clear == <<0, 0, 0, 0>>
Faint == <<ComponentDen, ComponentDen \div 4, 0, ComponentDen \div 2>>

Palettes ==
    { << <<1, Black>>, <<2, White>> >>,
      << <<0, Red>>, <<-1, Grey>>, <<1, Faint>> >> }

Limits ==
    { << <<0, 0, 0>>, <<100 * ValueDen, 100 * ValueDen, 100 * ValueDen>> >>,
      << <<0, 0, 0>>, <<ValueDen, ValueDen, ValueDen>> >>,
      << <<0, -ValueDen, 1>>, <<2, ValueDen, 1>> >> }

ProbeComposites ==
    {new_discrete_palette(p) : p \in Palettes}
    \cup {new_rgb(l[1], l[2]) : l \in Limits}
    \cup {new_gradient(0, ValueDen, "viridis"), new_gradient(-ValueDen, ValueDen, "inferno"),
          new_custom_gradient(0, ValueDen, <<Black, Grey, White>>),
          new_custom_gradient(0, ValueDen, <<Clear, Faint>>),
          new_gradient_with_breaks(<< <<0, Black>>, <<3, Grey>>, <<ValueDen, White>> >>),
          new_gradient_with_breaks(<< <<-2, Clear>>, <<0, Faint>>, <<ValueDen, Red>> >>)}

PixelValues == (-MaxPixel)..MaxPixel
BandValues == {-10 * ValueDen, 0, 1, 2, 50 * ValueDen, 100 * ValueDen, 150 * ValueDen}
Lanes == {<<>>} \cup {<<v>> : v \in PixelValues} \cup [1..3 -> BandValues]

NoDataChoices == {0, 1, 100 * ValueDen}
NoDataVectors == UNION {[1..n -> NoDataChoices] : n \in 0..MaxNoDataLen}

CmapInit ==
    /\ ServerIdle
    /\ \E comp \in ProbeComposites, values \in Lanes,
          no_data_values \in {None} \cup {Some(ndv) : ndv \in NoDataVectors} :
          probe = [op |-> "colour", comp |-> comp, values |-> values,
                   no_data_values |-> no_data_values, out |-> None]

Get ==
    /\ probe.op = "colour"
    /\ IsNone(probe.out)
    /\ probe' = [probe EXCEPT !.out =
                    Some([of |-> "get",
                          r |-> get(probe.comp, probe.values, probe.no_data_values)])]
    /\ ServerUnchanged

StyleLane ==
    /\ probe.op = "colour"
    /\ IsNone(probe.out)
    /\ IsSome(probe.no_data_values)
    /\ probe' = [probe EXCEPT !.out =
                    Some([of |-> "style",
                          r |-> style_lane(probe.comp, probe.values,
                                           Unwrap(probe.no_data_values))])]
    /\ ServerUnchanged

CmapNext == Get \/ StyleLane

CmapSpec == CmapInit /\ [][CmapNext]_vars

Coloured == probe.op = "colour" /\ IsSome(probe.out)
Kind == probe.comp.colour_definition.kind

\* trunc(h / ValueDen), toward zero.
C15_Key(h) ==
    CHOOSE k \in (-MaxPixel - 1)..(MaxPixel + 1) :
        \/ h >= 0 /\ k >= 0 /\ k * ValueDen <= h /\ h < (k + 1) * ValueDen
        \/ h < 0 /\ k <= 0 /\ k * ValueDen >= h /\ h > (k - 1) * ValueDen

\* The byte of a component c in [0, 1]: the whole part of c * 255.
C15_Byte(c) ==
    CHOOSE b \in 0..255 : b * ComponentDen <= 255 * c /\ 255 * c < (b + 1) * ComponentDen

\* C15: a Discrete palette looks up the key trunc(v) of the pixel
\* value v: a key of the palette gives that colour's four components times
\* 255 truncated to a byte, any other key gives (0, 0, 0, 0).
C15_DiscreteLookup ==
    (Coloured /\ Kind = "Discrete" /\ Len(probe.values) = 1) =>
        LET hash == probe.comp.colour_definition.a
            k == C15_Key(probe.values[1])
            r == Unwrap(probe.out).r
        IN  /\ r.panic = <<>>
            /\ \A i \in 1..Len(hash) :
                   hash[i][1] = k => r.val = [j \in 1..4 |-> C15_Byte(hash[i][2][j])]
            /\ (\A i \in 1..Len(hash) : hash[i][1] # k) => r.val = <<0, 0, 0, 0>>

\* -0.25 truncates to the key 0, which the palette colours red.
C15_Witness ==
    /\ Coloured /\ Kind = "Discrete"
    /\ probe.values = <<-1>>
    /\ Unwrap(probe.out).r.val = <<255, 0, 0, 255>>

\* The byte the claim gives a channel with limits vmin < vmax.
C16_Channel(v, vmin, vmax) ==
    IF v < vmin THEN 0
    ELSE IF v > vmax THEN 255
    ELSE CHOOSE b \in 0..255 :
            b * (vmax - vmin) <= 255 * (v - vmin) /\ 255 * (v - vmin) < (b + 1) * (vmax - vmin)

C16_Hundred == new_rgb(<<0, 0, 0>>, <<100 * ValueDen, 100 * ValueDen, 100 * ValueDen>>)

\* C16: an RGB composite gives each of the three channels 0 below
\* its lower limit, 255 above its upper limit and trunc(255 * (v - vmin) /
\* (vmax - vmin)) in between, with alpha 255 when no no-data vector is given;
\* each channel is within 0..255 and does not decrease as its value grows;
\* with limits 0 and 100, (-10, 50, 150) and (0, 50, 100) both give
\* (0, 127, 255, 255).
C16_RgbClamping ==
    (Coloured /\ Kind = "RGB" /\ Len(probe.values) = 3
        /\ Unwrap(probe.out).r.panic = <<>>) =>
        LET r == Unwrap(probe.out).r
            vmin == Unwrap(probe.comp.vmin)
            vmax == Unwrap(probe.comp.vmax)
        IN  /\ \A i \in 1..3 :
                   /\ r.val[i] \in 0..255
                   /\ vmin[i] < vmax[i] =>
                          /\ r.val[i] = C16_Channel(probe.values[i], vmin[i], vmax[i])
                          /\ \A w \in BandValues :
                                 w >= probe.values[i] =>
                                    get(probe.comp, [probe.values EXCEPT ![i] = w],
                                        probe.no_data_values).val[i] >= r.val[i]
            /\ IsNone(probe.no_data_values) => r.val[4] = 255
            /\ (probe.comp = C16_Hundred /\ IsNone(probe.no_data_values)
                    /\ probe.values \in {<<-10 * ValueDen, 50 * ValueDen, 150 * ValueDen>>,
                                          <<0, 50 * ValueDen, 100 * ValueDen>>})
                  => r.val = <<0, 127, 255, 255>>

C16_Witness ==
    /\ Coloured /\ probe.comp = C16_Hundred
    /\ probe.values = <<-10 * ValueDen, 50 * ValueDen, 150 * ValueDen>>
    /\ IsNone(probe.no_data_values)
    /\ Unwrap(probe.out).r.val = <<0, 127, 255, 255>>

\* What get returns for the same values when no no-data vector is given.
Plain == get(probe.comp, probe.values, None).val

\* The no-data vector of the probe is given and get returned a colour.
C17_Given ==
    /\ Coloured /\ IsSome(probe.no_data_values)
    /\ Unwrap(probe.out).r.panic = <<>>

C17_Rgb ==
    (C17_Given /\ Kind = "RGB") =>
        LET r == Unwrap(probe.out).r
            ndv == Unwrap(probe.no_data_values)
        IN  /\ r.val[4] = 0 <=> \A i \in 1..3 : probe.values[i] = ndv[i]
            /\ r.val[4] \in {0, 255}
            /\ \A k \in 1..3 : r.val[k] = Plain[k]

\* On a stop of the gradient the colour is the stop's own.
C17_GradientAlpha ==
    (C17_Given /\ Kind \in {"Colours", "ColoursAndBreaks"}) =>
        LET grad == Unwrap(probe.comp.gradient)
        IN  \A i \in 1..Len(grad.stops) :
                grad.stops[i].at = probe.values[1] * grad.den =>
                    Plain[4] = C15_Byte(grad.stops[i].colour[4])

C18_NoDataTransparent ==
    (/\ Coloured /\ Unwrap(probe.out).of = "style"
     /\ Unwrap(probe.out).r.panic = <<>>
     /\ Len(probe.values) = n_bands(probe.comp)
     /\ probe.values = Unwrap(probe.no_data_values))
        => Unwrap(probe.out).r.val[4] = 0

\* C19: with a no-data vector whose length is not 1, a Gradient
\* or GradientWithBreaks composite panics, and so does an RGB composite with
\* a no-data vector whose length is not 3: neither returns a colour.
C19_MismatchedNoDataPanics ==
    (Coloured /\ IsSome(probe.no_data_values)) =>
        LET n == Len(Unwrap(probe.no_data_values))
            r == Unwrap(probe.out).r
        IN  /\ (Kind \in {"Colours", "ColoursAndBreaks"} /\ n # 1) => r.panic # <<>>
            /\ (Kind = "RGB" /\ n # 3) => r.panic # <<>>

\* A viridis gradient handed three no-data values for its one band.
C19_Witness ==
    /\ Coloured
    /\ probe.comp = new_gradient(0, ValueDen, "viridis")
    /\ probe.values = <<0>>
    /\ probe.no_data_values = Some(<<1, 1, 1>>)
    /\ Unwrap(probe.out).of = "style"
    /\ Unwrap(probe.out).r = GetPanic(no_data_message(probe.comp, 1, "value"))

----------------------------------------------------------------------------
(* style.rs: styles to convert into composites, and values to colour *)

StyleNames == {None, Some("viridis"), Some("inferno"), Some("magma")}

StyleColours ==
    {None,
     Some(Colours(<<Black, White>>)),
     Some(Colours(<<Clear, Faint, Red>>)),
     Some(ColoursAndBreaks(<< <<0, Black>>, <<3, Grey>>, <<ValueDen, White>> >>)),
     Some(RGB(<<0, 0, 0>>, <<100 * ValueDen, 100 * ValueDen, 100 * ValueDen>>)),
     Some(Discrete(<< <<0, Red>>, <<1, White>> >>))}

StyleLimits == {<<0, ValueDen>>, <<-ValueDen, ValueDen>>, <<2, 6>>}

ConvertedLanes ==
    {<<v>> : v \in (-ValueDen)..(ValueDen + 2)}
    \cup {<<-50 * ValueDen, 50 * ValueDen, 150 * ValueDen>>}

StyleInit ==
    /\ ServerIdle
    /\ \E name \in StyleNames, colours \in StyleColours, l \in StyleLimits,
          values \in ConvertedLanes :
          probe = [op |-> "style",
                   style |-> Style(name, colours, Some(l[1]), Some(l[2]), Some(<<1>>)),
                   values |-> values, out |-> None, colour |-> None]

IntoComposite ==
    /\ probe.op = "style"
    /\ IsNone(probe.out)
    /\ probe' = [probe EXCEPT !.out = Some(StyleToComposite(probe.style))]
    /\ ServerUnchanged

GetConverted ==
    /\ probe.op = "style"
    /\ IsSome(probe.out)
    /\ IsNone(probe.colour)
    /\ probe' = [probe EXCEPT !.colour = Some(get(Unwrap(probe.out), probe.values, None))]
    /\ ServerUnchanged

StyleNext == IntoComposite \/ GetConverted

StyleSpec == StyleInit /\ [][StyleNext]_vars

\* C20: with vmin and vmax present, a style with a name converts
\* to that named gradient over [vmin, vmax] (inferno for "inferno", viridis
\* for "viridis" and for any other name) whatever its colours are; without a
\* name its colours decide (Colours: the custom gradient with equally spaced
\* stops over [vmin, vmax]; ColoursAndBreaks: the gradient with those breaks;
\* RGB: the RGB composite with the definition's own limits; Discrete: the
\* discrete palette); without either it converts to the viridis gradient.
C20_StyleHierarchy ==
    (probe.op = "style" /\ IsSome(probe.out)) =>
        LET style == probe.style
            comp == Unwrap(probe.out)
            vmin == Unwrap(style.vmin)
            vmax == Unwrap(style.vmax)
            named(colours) ==
                /\ comp.display = "Gradient"
                /\ comp.colour_definition.kind = "Colours"
                /\ comp.gradient = Some(make_gradient(vmin, vmax, colours))
                /\ comp.vmin = Some(<<vmin>>) /\ comp.vmax = Some(<<vmax>>)
                /\ comp.len = 1
        IN  IF IsSome(style.name) THEN
                IF Unwrap(style.name) = "inferno" THEN named(INFERNO7) ELSE named(VIRIDIS7)
            ELSE IF IsNone(style.colours) THEN named(VIRIDIS7)
            ELSE
            LET col_def == Unwrap(style.colours)
            IN  /\ comp.colour_definition = col_def
                /\ CASE col_def.kind = "Colours" -> named(col_def.a)
                     [] col_def.kind = "ColoursAndBreaks" ->
                            /\ comp.display = "GradientWithBreaks"
                            /\ comp.gradient = Some(make_gradient_with_breaks(col_def.a))
                            /\ comp.len = 1
                     [] col_def.kind = "RGB" ->
                            /\ comp.display = "RGBComposite"
                            /\ comp.vmin = Some(col_def.a) /\ comp.vmax = Some(col_def.b)
                            /\ comp.len = 3
                     [] OTHER ->
                            /\ comp.display = "DiscretePalette"
                            /\ comp.hashmap = Some(col_def.a)
                            /\ comp.len = 1

\* A style named viridis that also carries black-to-white colours colours
\* its upper limit with the last colour of viridis.
C20_Witness ==
    /\ probe.op = "style"
    /\ probe.style.name = Some("viridis")
    /\ probe.style.colours = Some(Colours(<<Black, White>>))
    /\ probe.style.vmax = Some(ValueDen)
    /\ probe.values = <<ValueDen>>
    /\ probe.colour = Some(Rgba(<<253, 231, 36, 255>>))

----------------------------------------------------------------------------
(* colour.rs: a colour from a string *)

\* A string is the sequence of its characters.
HEX_RADIX == 16
U8_MAX == 255

\* char::to_digit(16) of the characters used: -1 for a character that is no
\* hexadecimal digit.
to_digit(c) ==
    CASE c = "0" -> 0
      [] c \in {"f", "F"} -> 15
      [] OTHER -> -1

\* s.trim_start_matches('#'): every leading '#' goes.
RECURSIVE trim_start_matches(_)
trim_start_matches(s) ==
    IF Len(s) > 0 /\ s[1] = "#" THEN trim_start_matches(Tail(s)) ELSE s

ParseIntError == [kind |-> "ParseIntError"]
StrPanic(message) == [ok |-> FALSE, panic |-> TRUE, err |-> message]

\* The lazy map over (0..s.len()).step_by(2) collected into a Result: the
\* pairs are taken in order; the first pair that is no number ends the
\* collection with its error, a pair that reaches past the end of the string
\* panics in the slice.
RECURSIVE collect_pairs(_, _, _)
collect_pairs(s, i, v) ==
    IF i > Len(s) THEN [ok |-> TRUE, panic |-> FALSE, val |-> v]
    ELSE IF i + 1 > Len(s) THEN StrPanic(<<"byte index out of range">>)
    ELSE IF to_digit(s[i]) < 0 \/ to_digit(s[i + 1]) < 0
    THEN [ok |-> FALSE, panic |-> FALSE, err |-> ParseIntError]
    ELSE collect_pairs(s, i + 2, Append(v, HEX_RADIX * to_digit(s[i]) + to_digit(s[i + 1])))

\* Ok(the four components, each a count of 1 / 255), Err or a panic.
decode_hex(str) ==
    LET s == trim_start_matches(str)
        collected == collect_pairs(s, 1, <<>>)
    IN  IF ~collected.ok THEN collected
        ELSE LET v == IF Len(collected.val) = 3 THEN Append(collected.val, U8_MAX)
                      ELSE collected.val
             IN  IF Len(v) < 4 THEN StrPanic(INDEX_OUT_OF_BOUNDS)
                 ELSE [ok |-> TRUE, panic |-> FALSE, val |-> <<v[1], v[2], v[3], v[4]>>]

\* impl TryFrom<&str> for Colour
colour_try_from(s) == decode_hex(s)

\* Deserialize for Colour, visit_str: the error becomes invalid_value.
colour_visit_str(s) ==
    LET r == decode_hex(s)
    IN  IF r.ok \/ r.panic THEN r
        ELSE [ok |-> FALSE, panic |-> FALSE, err |-> [kind |-> "invalid_value", str |-> s]]

MaxHexLen == 8
MaxHashes == 2

HexChars == {"0", "f", "F", "g"}
HexBodies(max_len) ==
    UNION {[1..n -> HexChars] : n \in 0..max_len}
    \cup {<<"f", "f", "0", "0", "0", "0", "f", "f", "0", "0">>,
          <<"f", "f", "0", "0", "0", "0", "f", "f", "0", "g">>}
ColourStrings(max_len, max_hashes) ==
    {[i \in 1..h |-> "#"] \o b : h \in 0..max_hashes, b \in HexBodies(max_len)}

ColourInit ==
    /\ ServerIdle
    /\ \E s \in ColourStrings(MaxHexLen, MaxHashes) :
          probe = [op |-> "colour_str", s |-> s, out |-> None]

TryFromStr ==
    /\ probe.op = "colour_str"
    /\ IsNone(probe.out)
    /\ probe' = [probe EXCEPT !.out = Some([of |-> "try_from", r |-> colour_try_from(probe.s)])]
    /\ ServerUnchanged

DeserializeStr ==
    /\ probe.op = "colour_str"
    /\ IsNone(probe.out)
    /\ probe' = [probe EXCEPT !.out = Some([of |-> "deserialize", r |-> colour_visit_str(probe.s)])]
    /\ ServerUnchanged

ColourNext == TryFromStr \/ DeserializeStr

ColourSpec == ColourInit /\ [][ColourNext]_vars

\* The digits of a colour string: the string without one leading '#'.
C22_Digits(s) == IF Len(s) > 0 /\ s[1] = "#" THEN Tail(s) ELSE s

C22_Valid(s, n) ==
    /\ Len(C22_Digits(s)) = n
    /\ \A i \in 1..n : C22_Digits(s)[i] \in {"0", "f", "F"}

C22_Byte(s, k) ==
    LET d(c) == IF c = "0" THEN 0 ELSE 15
    IN  16 * d(C22_Digits(s)[2 * k - 1]) + d(C22_Digits(s)[2 * k])

\* C22: parsing a colour from a string never panics; a string of
\* 6 hex digits (after an optional '#', in either case) parses with alpha 1,
\* one of 8 hex digits with its own alpha, and every other string is an error,
\* through Colour::try_from and through deserialisation alike.
C22_ParseNeverPanics ==
    (probe.op = "colour_str" /\ IsSome(probe.out)) =>
        LET r == Unwrap(probe.out).r
            s == probe.s
        IN  /\ ~r.panic
            /\ C22_Valid(s, 6) =>
                    r.ok /\ r.val = <<C22_Byte(s, 1), C22_Byte(s, 2), C22_Byte(s, 3), 255>>
            /\ C22_Valid(s, 8) =>
                    r.ok /\ r.val = [k \in 1..4 |-> C22_Byte(s, k)]
            /\ (~C22_Valid(s, 6) /\ ~C22_Valid(s, 8)) => ~r.ok

----------------------------------------------------------------------------
(* raster/mod.rs: SpatialInfo::to_spatial_ref *)

SpatialInfo(epsg_code, proj4, wkt, esri) ==
    [epsg_code |-> epsg_code, proj4 |-> proj4, wkt |-> wkt, esri |-> esri]

\* The definitions the library accepts; any other makes the constructor fail.
KnownEpsg == {4326}
KnownDefinitions == {"+proj=longlat", "GEOGCS[..]", "GEOGCS[esri]"}

\* SpatialRef::from_epsg, from_proj4, from_wkt, from_esri followed by ?.
SpatialRef(constructor, definition) ==
    IF \/ constructor = "from_epsg" /\ definition \in KnownEpsg
       \/ constructor # "from_epsg" /\ definition \in KnownDefinitions
    THEN [ok |-> TRUE, panic |-> FALSE,
          val |-> [constructor |-> constructor, definition |-> definition]]
    ELSE [ok |-> FALSE, panic |-> FALSE, err |-> GdalError(constructor)]

to_spatial_ref(self) ==
    IF IsSome(self.epsg_code) THEN SpatialRef("from_epsg", Unwrap(self.epsg_code))
    ELSE IF IsSome(self.proj4) THEN SpatialRef("from_proj4", Unwrap(self.proj4))
    ELSE IF IsSome(self.wkt) THEN SpatialRef("from_wkt", Unwrap(self.wkt))
    ELSE IF IsSome(self.esri) THEN
        IF IsNone(self.wkt) THEN [ok |-> FALSE, panic |-> TRUE, err |-> UNWRAP_NONE]
        ELSE SpatialRef("from_esri", Unwrap(self.wkt))
    ELSE [ok |-> FALSE, panic |-> FALSE, err |-> Msg("Unknow spatial ref")]

SpatialInfos ==
    {SpatialInfo(e, p, w, x) :
        e \in {None, Some(4326), Some(0)},
        p \in {None, Some("+proj=longlat"), Some("+proj=none")},
        w \in {None, Some("GEOGCS[..]"), Some("GEOGCS[")},
        x \in {None, Some("GEOGCS[esri]"), Some("GEOGCS[")}}

SpatialInit ==
    /\ ServerIdle
    /\ \E info \in SpatialInfos : probe = [op |-> "spatial", info |-> info, out |-> None]

ToSpatialRef ==
    /\ probe.op = "spatial"
    /\ IsNone(probe.out)
    /\ probe' = [probe EXCEPT !.out = Some(to_spatial_ref(probe.info))]
    /\ ServerUnchanged

SpatialNext == ToSpatialRef

SpatialSpec == SpatialInit /\ [][SpatialNext]_vars

\* What the claim expects of a constructor given its own field.
C23_From(constructor, field) ==
    LET r == Unwrap(probe.out)
    IN  /\ ~r.panic
        /\ r.ok => r.val = [constructor |-> constructor, definition |-> Unwrap(field)]
        /\ ~r.ok => r.err = GdalError(constructor)

\* C23: to_spatial_ref builds the spatial reference from the first
\* field that is set, in the order EPSG code, proj4, WKT, ESRI WKT, and from
\* that field's own value; it returns the error Msg when none is set; it
\* never panics, whichever fields are set.
C23_FirstSetField ==
    (probe.op = "spatial" /\ IsSome(probe.out)) =>
        LET info == probe.info
            r == Unwrap(probe.out)
        IN  IF IsSome(info.epsg_code) THEN C23_From("from_epsg", info.epsg_code)
            ELSE IF IsSome(info.proj4) THEN C23_From("from_proj4", info.proj4)
            ELSE IF IsSome(info.wkt) THEN C23_From("from_wkt", info.wkt)
            ELSE IF IsSome(info.esri) THEN C23_From("from_esri", info.esri)
            ELSE ~r.panic /\ ~r.ok /\ r.err = Msg("Unknow spatial ref")

----------------------------------------------------------------------------
(* tiles.rs: the window of a tile, from its four corners *)

MaxCorner == 1

\* The corners get_row_cols can give: any four pixel positions (row, col).
CornerPositions == ((-MaxCorner)..MaxCorner) \X ((-MaxCorner)..MaxCorner)
RowCols == [1..4 -> CornerPositions]

CornersInit ==
    /\ ServerIdle
    /\ \E row_cols \in RowCols : probe = [op |-> "to_window", row_cols |-> row_cols, out |-> None]

ToWindow ==
    /\ probe.op = "to_window"
    /\ IsNone(probe.out)
    /\ probe' = [probe EXCEPT !.out = Some(to_window(probe.row_cols))]
    /\ ServerUnchanged

CornersNext == ToWindow

CornersSpec == CornersInit /\ [][CornersNext]_vars

C26_Span(row_cols, axis) ==
    LET at == {row_cols[k][axis] : k \in 1..4}
    IN  (CHOOSE m \in at : \A x \in at : x <= m) - (CHOOSE m \in at : \A x \in at : m <= x)

\* C26: the window of a tile contains the four corner positions,
\* for axis-aligned and skewed corners alike, and its width and height are the
\* corner spans plus one, never a negative difference taken as unsigned.
C26_WindowEnclosesCorners ==
    (probe.op = "to_window" /\ IsSome(probe.out)) =>
        LET win == Unwrap(probe.out)[1]
            row_cols == probe.row_cols
        IN  /\ \A k \in 1..4 :
                   /\ win.col_off <= row_cols[k][2] /\ row_cols[k][2] < win.col_off + win.width
                   /\ win.row_off <= row_cols[k][1] /\ row_cols[k][1] < win.row_off + win.height
            /\ win.width = C26_Span(row_cols, 2) + 1
            /\ win.height = C26_Span(row_cols, 1) + 1

----------------------------------------------------------------------------
(* raster/mod.rs: reading the pixels of a tile.  An array is held as its   *)
(* shape; what the provider is asked to read is held as the window and the *)
(* kind of read.  The f64 quotients of try_boundless equal the exact ones  *)
(* for every window narrower than 128 pixels, which is all that is read    *)
(* here.                                                                   *)

TILE_SIZE == 256
MBTILES == "MBTiles"
F64_SQRT_2 == F64(47453132, 109001677, -52)

\* <N as NumCast>::from of an f64 no-data value: u8 holds what truncates
\* into 0..255, f64 holds everything.
num_cast(pixel_type, val) ==
    IF pixel_type = "u8" /\ ~(val > -1 /\ val < 256) THEN None ELSE Some(val)

\* RasterBand::read_as and read_as_array: the provider reads a window that
\* lies on the raster, when it reads at all.
provider_reads(src, win, provider_ok) ==
    /\ provider_ok
    /\ win.col_off >= 0 /\ win.row_off >= 0
    /\ win.col_off + win.width <= src.raster_size[1]
    /\ win.row_off + win.height <= src.raster_size[2]

\* ArrayBase::slice_mut(s![range]).assign(&data) along one axis of 256: the
\* range must lie on the axis, and data of another length is broadcast only
\* from length 1.
assignable(data_len, range) ==
    /\ 0 <= range[1] /\ range[1] <= range[2] /\ range[2] <= TILE_SIZE
    /\ (data_len = range[2] - range[1] \/ data_len = 1)

Absent == [kind |-> "None"]
BoundlessPanic(message) == [kind |-> "panic", message |-> message]
Container(fill, data, row_range, col_range, read) ==
    [kind |-> "Some", shape |-> <<TILE_SIZE, TILE_SIZE>>, fill |-> fill, data |-> data,
     row_range |-> row_range, col_range |-> col_range, read |-> read]

\* The start of the destination range: (256.0 * (off / size) - 1.0).trunc().
boundless_off(off, size) ==
    IF off < 0 THEN TruncDiv(TILE_SIZE * off - size, size) ELSE 0

\* try_boundless: None sends read_tile on to try_overview.
try_boundless(src, band_index, win, skewed, pixel_type, provider_ok) ==
    LET raster_win == Window(0, 0, src.raster_size[1], src.raster_size[2])
        inter == intersection(<<raster_win, win>>)
        no_data_value == src.no_data[band_index]
        val == IF IsNone(no_data_value) THEN Some(0)
               ELSE num_cast(pixel_type, Unwrap(no_data_value))
    IN  IF /\ IsSome(inter)
           /\ (Unwrap(inter).height >= win.height \/ Unwrap(inter).width >= win.width)
           /\ win.col_off >= 0 /\ win.row_off >= 0
           /\ win.row_off + win.height < raster_win.height
           /\ win.col_off + win.width < raster_win.width
        THEN Absent
        ELSE IF IsNone(val) THEN Absent
        ELSE IF IsNone(inter) THEN Container(Unwrap(val), <<>>, <<>>, <<>>, "none")
        ELSE IF ~provider_reads(src, Unwrap(inter), provider_ok)
        THEN BoundlessPanic(<<"Cannot read window ", Unwrap(inter)>>)
        ELSE
        LET \* the array read: (rows, cols); a reprojected one is a full tile
            data == IF skewed THEN <<TILE_SIZE, TILE_SIZE>>
                    ELSE << (TILE_SIZE * Unwrap(inter).height) \div win.height,
                            (TILE_SIZE * Unwrap(inter).width) \div win.width >>
            col_off == boundless_off(win.col_off, win.width)
            row_off == boundless_off(win.row_off, win.height)
            row_range == << IF skewed THEN TILE_SIZE - data[1] ELSE -row_off,
                            Min(-row_off + data[1], TILE_SIZE) >>
            col_range == << IF skewed THEN TILE_SIZE - data[2] ELSE -col_off,
                            Min(-col_off + data[2], TILE_SIZE) >>
        IN  IF assignable(data[1], row_range) /\ assignable(data[2], col_range)
            THEN Container(Unwrap(val), data, row_range, col_range,
                           IF skewed THEN "read_and_reproject" ELSE "read_as_array")
            ELSE BoundlessPanic(<<"ndarray: could not broadcast array from shape: ", data,
                                  " to: ", <<row_range[2] - row_range[1],
                                             col_range[2] - col_range[1]>> >>)

\* try_overview: a full tile read from the window, reprojected when skewed.
try_overview(src, win, skewed, provider_ok) ==
    IF provider_reads(src, win, provider_ok)
    THEN Ok([shape |-> <<TILE_SIZE, TILE_SIZE>>,
             read |-> IF skewed THEN "read_and_reproject" ELSE "read_as_array"])
    ELSE Err(GdalError("read"))

ReadPanic(message) == [ok |-> FALSE, panic |-> message]

\* container_arr.slice_mut(s![out_idx, .., ..]).assign(&band_data)
band_slot_append(slots, slot) ==
    IF slot.ok THEN Ok(Append(slots.val, slot.val)) ELSE slot

\* RawPixels::new(container_arr, driver_name), the axes swapped for MBTiles.
raw_pixels(src, win, band_list, slots) ==
    IF ~slots.ok THEN slots
    ELSE Ok([shape |-> IF src.driver = MBTILES
                       THEN <<TILE_SIZE, TILE_SIZE, Len(band_list)>>
                       ELSE <<Len(band_list), TILE_SIZE, TILE_SIZE>>,
             slots |-> slots.val, win |-> win, driver_name |-> src.driver])

\* The slot of a band: what try_boundless read, else what try_overview reads.
band_slot(band_index, band_data, overview) ==
    CASE band_data.kind = "panic" -> ReadPanic(band_data.message)
      [] band_data.kind = "Some" ->
            Ok([band |-> band_index, shape |-> band_data.shape, read |-> band_data.read])
      [] OTHER ->
            IF overview.ok
            THEN Ok([band |-> band_index, shape |-> overview.val.shape,
                     read |-> overview.val.read])
            ELSE overview

\* One turn of the loop of read_tile.
read_band(src, band_index, win, skewed, pixel_type, provider_ok) ==
    IF band_index < 1 \/ band_index > src.raster_count THEN Err(GdalError("rasterband"))
    ELSE band_slot(band_index,
                   try_boundless(src, band_index, win, skewed, pixel_type, provider_ok),
                   try_overview(src, win, skewed, provider_ok))

\* The loop of read_tile from out_idx on: `?` and a panic end it.
RECURSIVE read_band_loop(_, _, _, _, _, _, _, _)
read_band_loop(src, band_list, win, skewed, pixel_type, provider_ok, out_idx, slot) ==
    IF ~slot.ok THEN slot
    ELSE IF out_idx > Len(band_list) THEN slot
    ELSE read_band_loop(src, band_list, win, skewed, pixel_type, provider_ok, out_idx + 1,
             band_slot_append(slot, read_band(src, band_list[out_idx], win, skewed,
                                              pixel_type, provider_ok)))

\* read_tile once the dataset is open and the window is known.
read_tile_window(src, win, skewed, band_list, pixel_type, provider_ok) ==
    raw_pixels(src, win, band_list,
               read_band_loop(src, band_list, win, skewed, pixel_type, provider_ok,
                              1, Ok(<<>>)))

\* Raster::read_tile::<P>: row_cols are the corners to_window finds for the
\* tile, None when the transformation fails.
read_tile(path, row_cols, band_selection, pixel_type, provider_ok) ==
    IF IsNone(Dataset(path)) THEN Err(GdalError("open"))
    ELSE IF IsNone(row_cols) THEN Err(GdalError("transform"))
    ELSE read_tile_window(
             Unwrap(Dataset(path)),
             IF is_skewed(Unwrap(row_cols))
             THEN WindowMul(to_window(Unwrap(row_cols))[1], F64_SQRT_2)
             ELSE to_window(Unwrap(row_cols))[1],
             is_skewed(Unwrap(row_cols)),
             IF Unwrap(Dataset(path)).driver = MBTILES
             THEN [i \in 1..Unwrap(Dataset(path)).raster_count |-> i]
             ELSE UnwrapOr(band_selection,
                           [i \in 1..Unwrap(Dataset(path)).raster_count |-> i]),
             pixel_type, provider_ok)

MaxReadOff == 2
MaxReadSize == 4

ReadWindows(max_off, max_size) ==
    {Window(c, r, w, h) : c \in (-max_off)..(max_off + 2), r \in (-max_off)..(max_off + 2),
                           w \in 1..max_size, h \in 1..max_size}

\* (path, band): a band without a no-data value, one whose no-data value
\* only f64 holds, and two whose no-data value u8 holds as well.
ReadBands == {<<"one.tif", 1>>, <<"dem.tif", 1>>, <<"rgb.tif", 1>>, <<"rgb.tif", 3>>}
PixelTypes == {"u8", "f64"}

ReadPaths == {"one.tif", "dem.tif", "rgb.tif", "world.mbtiles"}
BandSelections == {None, Some(<<1>>), Some(<<2, 1>>), Some(<<3, 1, 2>>), Some(<<0>>)}

\* Corners of rotated rasters: one set whose enlarged window overhangs the
\* raster and one off the raster.
SkewedCorners ==
    { << <<0, 1>>, <<1, 3>>, <<3, 2>>, <<2, 0>> >>,
      << <<5, 5>>, <<5, 6>>, <<6, 6>>, <<5, 5>> >> }

\* Every set of corners on two rows and two columns, aligned or not.
SmallCorners == [1..4 -> (1..2) \X (1..2)]

ReadCorners(max_off, max_size) ==
    {None}
    \cup {Some(c) : c \in SkewedCorners}
    \cup {Some(Box(r, c, r + h, c + w)) :
              r \in (-max_off + 1)..(max_off + 2), c \in (-max_off + 1)..(max_off + 2),
              h \in 0..(max_size - 2), w \in 0..(max_size - 2)}

ReadInit ==
    /\ ServerIdle
    /\ \/ \E b \in ReadBands, win \in ReadWindows(MaxReadOff, MaxReadSize),
             skewed \in BOOLEAN, pixel_type \in PixelTypes, provider_ok \in BOOLEAN :
             probe = [op |-> "try_boundless", path |-> b[1], band |-> b[2], win |-> win,
                      skewed |-> skewed, pixel_type |-> pixel_type,
                      provider_ok |-> provider_ok, out |-> None]
       \/ \E path \in ReadPaths, row_cols \in ReadCorners(MaxReadOff, MaxReadSize),
             band_selection \in BandSelections, pixel_type \in PixelTypes,
             provider_ok \in BOOLEAN :
             probe = [op |-> "read_tile", path |-> path, row_cols |-> row_cols,
                      bands |-> band_selection, pixel_type |-> pixel_type,
                      provider_ok |-> provider_ok, out |-> None]
       \/ \E row_cols \in SmallCorners, path \in {"one.tif", "world.mbtiles"},
             provider_ok \in BOOLEAN :
             probe = [op |-> "read_tile", path |-> path, row_cols |-> Some(row_cols),
                      bands |-> None, pixel_type |-> "f64",
                      provider_ok |-> provider_ok, out |-> None]

TryBoundless ==
    /\ probe.op = "try_boundless"
    /\ IsNone(probe.out)
    /\ probe' = [probe EXCEPT !.out =
                    Some(try_boundless(Unwrap(Dataset(probe.path)), probe.band, probe.win,
                                       probe.skewed, probe.pixel_type, probe.provider_ok))]
    /\ ServerUnchanged

ReadTile ==
    /\ probe.op = "read_tile"
    /\ IsNone(probe.out)
    /\ probe' = [probe EXCEPT !.out =
                    Some(read_tile(probe.path, probe.row_cols, probe.bands,
                                   probe.pixel_type, probe.provider_ok))]
    /\ ServerUnchanged

ReadNext == TryBoundless \/ ReadTile

ReadSpec == ReadInit /\ [][ReadNext]_vars

Read(op) == probe.op = op /\ IsSome(probe.out)

C24_Inter == intersection(<<Window(0, 0, 4, 4), probe.win>>)

C24_Start(off, size) == IF off < 0 THEN (TILE_SIZE * (-off)) \div size + 1 ELSE 0

\* C24: for a non-skewed window that overhangs the raster, the data read
\* is (floor(256 * inter.height / win.height), floor(256 * inter.width / win.width)),
\* the destination starts at |trunc(256 * off / size - 1)| for a negative offset
\* and at 0 otherwise, and the range from the start to min(start + size, 256)
\* holds exactly the data within [0, 256), so that the copy does not fail.
C24_BoundlessSlice ==
    (/\ Read("try_boundless") /\ ~probe.skewed /\ probe.provider_ok
     /\ IsSome(C24_Inter) /\ Unwrap(probe.out).kind # "None") =>
        LET out == Unwrap(probe.out)
            win == probe.win
            rows == (TILE_SIZE * Unwrap(C24_Inter).height) \div win.height
            cols == (TILE_SIZE * Unwrap(C24_Inter).width) \div win.width
        IN  /\ out.kind = "Some"
            /\ out.data = <<rows, cols>>
            /\ out.row_range[1] = C24_Start(win.row_off, win.height)
            /\ out.col_range[1] = C24_Start(win.col_off, win.width)
            /\ out.row_range[2] = Min(out.row_range[1] + rows, TILE_SIZE)
            /\ out.col_range[2] = Min(out.col_range[1] + cols, TILE_SIZE)
            /\ out.row_range[2] - out.row_range[1] = rows
            /\ out.col_range[2] - out.col_range[1] = cols
            /\ 0 <= out.row_range[1] /\ 0 <= out.col_range[1]

C25_StrictlyInside(win) ==
    /\ win.col_off >= 0 /\ win.row_off >= 0
    /\ win.col_off + win.width < 4
    /\ win.row_off + win.height < 4

\* C25: try_boundless yields nothing exactly when the window lies
\* strictly inside the raster; otherwise it yields a 256 x 256 array, which for
\* a window off the raster is filled with the no-data value of the band cast to
\* the pixel type, or with zeros when the band has none.
C25_BoundlessOrOverview ==
    (Read("try_boundless") /\ probe.provider_ok) =>
        LET out == Unwrap(probe.out)
            no_data_value == Unwrap(Dataset(probe.path)).no_data[probe.band]
        IN  /\ out.kind = "None" <=> C25_StrictlyInside(probe.win)
            /\ ~C25_StrictlyInside(probe.win) =>
                   /\ out.kind = "Some"
                   /\ out.shape = <<256, 256>>
                   /\ IsNone(C24_Inter) =>
                          /\ out.read = "none"
                          /\ out.fill = UnwrapOr(no_data_value, 0)

C21_Requested ==
    LET src == Unwrap(Dataset(probe.path))
    IN  IF src.driver = "MBTiles" \/ IsNone(probe.bands)
        THEN [i \in 1..src.raster_count |-> i]
        ELSE Unwrap(probe.bands)

\* C21: read_tile of a raster that is not MBTiles gives, for a tile
\* that lies on the raster, overhangs it or misses it, an array (n, 256, 256)
\* with n the number of bands asked for (all of them without a selection) and
\* the i-th band asked for in slot i; an MBTiles raster is read in all its
\* bands whatever the selection, with the axes swapped to (256, 256, 4).
C21_TileShape ==
    (/\ Read("read_tile") /\ probe.provider_ok /\ IsSome(probe.row_cols)
     /\ \A i \in 1..Len(C21_Requested) :
            C21_Requested[i] \in 1..Unwrap(Dataset(probe.path)).raster_count) =>
        LET out == Unwrap(probe.out)
            n == Len(C21_Requested)
        IN  /\ out.ok
            /\ out.val.shape = IF probe.path = "world.mbtiles" THEN <<256, 256, 4>>
                               ELSE <<n, 256, 256>>
            /\ Len(out.val.slots) = n
            /\ \A i \in 1..n : /\ out.val.slots[i].band = C21_Requested[i]
                               /\ out.val.slots[i].shape = <<256, 256>>

C27_Aligned(row_cols) ==
    /\ row_cols[1][1] = row_cols[2][1]
    /\ row_cols[3][1] = row_cols[4][1]
    /\ row_cols[1][2] = row_cols[4][2]
    /\ row_cols[2][2] = row_cols[3][2]

\* C27: is_skewed is false exactly when the upper corners share a row,
\* the lower corners share a row, the left corners share a column and the right
\* corners share a column; read_tile enlarges the window by sqrt(2) and reads
\* through the reprojection exactly when the corners are skewed.
C27_SkewedReads ==
    (Read("read_tile") /\ IsSome(probe.row_cols)) =>
        LET row_cols == Unwrap(probe.row_cols)
            out == Unwrap(probe.out)
            win == to_window(row_cols)[1]
        IN  /\ to_window(row_cols)[2] <=> ~C27_Aligned(row_cols)
            /\ out.ok =>
                   /\ out.val.win = IF C27_Aligned(row_cols) THEN win
                                    ELSE WindowMul(win, F64_SQRT_2)
                   /\ (~C27_Aligned(row_cols) /\ win.width > 0) =>
                          out.val.win.width > win.width
                   /\ \A i \in 1..Len(out.val.slots) :
                          /\ out.val.slots[i].read = "read_and_reproject" =>
                                 ~C27_Aligned(row_cols)
                          /\ out.val.slots[i].read = "read_as_array" =>
                                 C27_Aligned(row_cols)

C27_Witness ==
    /\ Read("read_tile") /\ IsSome(probe.row_cols)
    /\ ~C27_Aligned(Unwrap(probe.row_cols))
    /\ Unwrap(probe.out).ok
    /\ Unwrap(probe.out).val.win.width > to_window(Unwrap(probe.row_cols))[1].width
    /\ \E i \in 1..Len(Unwrap(probe.out).val.slots) :
           Unwrap(probe.out).val.slots[i].read = "read_and_reproject"

\* C30: every band index of a raster map that a registration accepts
\* lies in 1..raster_count of its raster.
C30_AcceptedBandsInRange ==
    (Probed("prepare") /\ Unwrap(probe.out).ok) =>
        LET accepted == Unwrap(probe.out).val
            band_list == get_bands(accepted.map)
        IN  \A i \in 1..Len(band_list) :
                1 <= band_list[i] /\ band_list[i] <= accepted.raster.raster_count

\* C28: the settings, the raster and the composite a tile request
\* works with come from one and the same registration, also when the map is
\* registered again while the request is in flight.
C28_OneRegistration ==
    \A q \in Requests :
        req[q].pc = "render" =>
            LET req_map == Unwrap(req[q].req_map)
            IN  /\ Unwrap(req[q].raster) = Raster(req_map.path, Unwrap(Dataset(req_map.path)))
                /\ Unwrap(req[q].style) = to_composite(req_map)

----------------------------------------------------------------------------
(* state.rs: the four RwLocks of State.  Here every acquisition and every  *)
(* drop of a guard is a step of its own; the registry is reduced to        *)
(* whether the one name the threads use is present in each map.            *)

Locks == {"maps", "rasters", "styles", "vectors"}
LockRequests == {"q1", "q2"}
LockRegistrars == {"w1"}
Threads == LockRequests \cup LockRegistrars

\* The lock that the expression at each position takes.
StageLock(pc) ==
    CASE pc \in {"get_map_if", "get_map_get", "get_raster_if", "get_style_if",
                 "insert_map", "vector_insert_map"} -> "maps"
      [] pc \in {"get_raster_get", "insert_raster"} -> "rasters"
      [] pc \in {"get_style_get", "insert_style"} -> "styles"
      [] OTHER -> "vectors"

LockStages ==
    {"get_map_if", "get_map_get", "get_raster_if", "get_raster_get", "get_style_if",
     "get_style_get", "insert_style", "insert_map", "insert_raster",
     "vector_insert_map", "vector_insert_vector"}

\* Where no registry map is touched: the dataset is opened and validated, the
\* tile is read, styled and encoded.
IoStages == {"validate", "vector_prepare", "render"}

\* The guard of `if self.maps.read().unwrap().contains_key(..)` were it a
\* temporary of an `if let`: kept until the function returns.
guard_dropped_at_return(pc) == FALSE

\* Whether the guard taken at pc is dropped before the next expression: the
\* temporaries of an `if` condition are dropped at the end of the condition, those
\* of a statement at its end, those of the tail expression at the return.
guard_dropped(pc) == TRUE

\* The position after the expression at pc, given what the maps hold.
AfterStage(pc, present) ==
    CASE pc = "get_map_if" -> IF present["maps"] THEN "get_map_get" ELSE "done"
      [] pc = "get_map_get" -> IF present["maps"] THEN "get_raster_if" ELSE "done"
      [] pc = "get_raster_if" -> IF present["maps"] THEN "get_raster_get" ELSE "done"
      [] pc = "get_raster_get" -> IF present["rasters"] THEN "get_style_if" ELSE "done"
      [] pc = "get_style_if" -> IF present["maps"] THEN "get_style_get" ELSE "done"
      [] pc = "get_style_get" -> IF present["styles"] THEN "render" ELSE "done"
      [] pc = "insert_style" -> "insert_map"
      [] pc = "insert_map" -> "insert_raster"
      [] pc = "vector_insert_map" -> "vector_insert_vector"
      [] OTHER -> "done"

\* The positions at which a function of State returns, dropping every guard
\* it still holds.
Returns(pc) == pc \in {"get_map_get", "get_raster_get", "get_style_get"}

Inserts(pc) ==
    pc \in {"insert_style", "insert_map", "insert_raster",
            "vector_insert_map", "vector_insert_vector"}

LocksInit ==
    /\ ServerIdle
    /\ \E registered \in BOOLEAN :
          probe = [op |-> "locks",
                   pc |-> [t \in Threads |-> "idle"],
                   held |-> [l \in Locks |-> {}],
                   present |-> [l \in Locks |-> registered /\ l # "vectors"]]

\* RwLock: a reader enters when no writer holds the lock, a writer when
\* nobody does.
Available(t, l) ==
    IF t \in LockRequests THEN probe.held[l] \cap LockRegistrars = {}
    ELSE probe.held[l] = {}

\* A request or a registration arrives.
LockBegin(t) ==
    /\ probe.op = "locks"
    /\ probe.pc[t] = "idle"
    /\ \E next \in IF t \in LockRequests THEN {"get_map_if", "done"}
                   ELSE {"validate", "vector_prepare"} :
          probe' = [probe EXCEPT !.pc[t] = next]
    /\ ServerUnchanged

\* read().unwrap() or write().unwrap() of the lock of the position.
LockAcquire(t) ==
    /\ probe.op = "locks"
    /\ probe.pc[t] \in LockStages
    /\ t \notin probe.held[StageLock(probe.pc[t])]
    /\ Available(t, StageLock(probe.pc[t]))
    /\ probe' = [probe EXCEPT !.held[StageLock(probe.pc[t])] = @ \cup {t}]
    /\ ServerUnchanged

\* The expression under the guard is evaluated and the guard is dropped.
LockRelease(t) ==
    /\ probe.op = "locks"
    /\ probe.pc[t] \in LockStages
    /\ t \in probe.held[StageLock(probe.pc[t])]
    /\ LET pc == probe.pc[t]
           l == StageLock(pc)
           present == IF Inserts(pc) THEN [probe.present EXCEPT ![l] = TRUE]
                      ELSE probe.present
           next == AfterStage(pc, probe.present)
           held == IF Returns(pc) \/ next = "done"
                   THEN [k \in Locks |-> probe.held[k] \ {t}]
                   ELSE IF guard_dropped(pc) THEN [probe.held EXCEPT ![l] = @ \ {t}]
                   ELSE probe.held
       IN  probe' = [probe EXCEPT !.pc[t] = next, !.held = held, !.present = present]
    /\ ServerUnchanged

\* The work outside the registry: validation succeeds or fails, the tile is
\* rendered.
LockIo(t) ==
    /\ probe.op = "locks"
    /\ probe.pc[t] \in IoStages
    /\ \E next \in CASE probe.pc[t] = "validate" -> {"insert_style", "done"}
                     [] probe.pc[t] = "vector_prepare" -> {"vector_insert_map", "done"}
                     [] OTHER -> {"done"} :
          probe' = [probe EXCEPT !.pc[t] = next]
    /\ ServerUnchanged

\* The response is sent.
LockDone(t) ==
    /\ probe.op = "locks"
    /\ probe.pc[t] = "done"
    /\ probe' = [probe EXCEPT !.pc[t] = "idle"]
    /\ ServerUnchanged

LocksNext ==
    \E t \in Threads :
        \/ LockBegin(t)
        \/ LockAcquire(t)
        \/ LockRelease(t)
        \/ LockIo(t)
        \/ LockDone(t)

LocksSpec == LocksInit /\ [][LocksNext]_vars

\* A thread that has begun is scheduled again and again, and a thread that
\* waits for a lock gets it if the lock becomes free again and again; no
\* client is obliged to send a request.
LocksFairSpec ==
    /\ LocksSpec
    /\ \A t \in Threads :
          /\ WF_vars(LockRelease(t))
          /\ WF_vars(LockIo(t))
          /\ WF_vars(LockDone(t))
          /\ SF_vars(LockAcquire(t))

HeldBy(t) == {l \in Locks : t \in probe.held[l]}

C29_Discipline ==
    \A t \in Threads :
        /\ Cardinality(HeldBy(t)) <= 1
        /\ probe.pc[t] \notin LockStages => HeldBy(t) = {}
        /\ HeldBy(t) \subseteq {StageLock(probe.pc[t])}
        /\ (t \in LockRegistrars /\ HeldBy(t) # {}) =>
               /\ Inserts(probe.pc[t])
               /\ probe.held[StageLock(probe.pc[t])] = {t}

\* Every thread that waits for a lock waits for threads that hold no other
\* lock and whose next step drops the guard.
C29_NoDeadlock ==
    \A t \in Threads :
        (/\ probe.pc[t] \in LockStages
         /\ t \notin probe.held[StageLock(probe.pc[t])]
         /\ ~Available(t, StageLock(probe.pc[t]))) =>
            \E h \in probe.held[StageLock(probe.pc[t])] \ {t} :
                /\ probe.pc[h] \in LockStages
                /\ StageLock(probe.pc[h]) = StageLock(probe.pc[t])

====
